---- MODULE Spec2Model ----
(***************************************************************************)
(* Verification model of the 88keys sight-reading trainer.                 *)
(*                                                                         *)
(* Part 1: the session state machine of hooks/useSightReadingSession.ts    *)
(* (reset / handleNoteOn / handleNoteOff) and the way App.tsx wires it to  *)
(* score regeneration through the reset effect.                            *)
(***************************************************************************)
EXTENDS Integers, Sequences, FiniteSets, TLC

(* ----------------------------- bounds ---------------------------------- *)

\* number of distinct MIDI keys the player can press
NumKeys == 3
\* longest expected-note sequence explored
MaxLen == 3
\* inserted events between a correct press and its release are counted up to here
MaxInserted == 2

\* MIDI keys explored, starting at middle C
Keys == 60..(59 + NumKeys)

\* the keys of Keys that are natural pitches (SEMITONE_OFFSET values); the
\* generated scores, and so the expected notes, hold natural pitches only
NaturalKeys == {k \in Keys : k % 12 \in {0, 2, 4, 5, 7, 9, 11}}

\* every expected-note sequence of length 0..MaxLen over the natural keys
NoteSeqs == UNION {[1..n -> NaturalKeys] : n \in 0..MaxLen}

(* ------------------------ session state machine ------------------------ *)

\* armedNote.current === null
null == -1

VARIABLES
    expectedNotes,   \* expectedNotes.current : ordered MIDI notes to play
    cursor,          \* cursor.current : index of the next note (0-based)
    armedNote,       \* armedNote.current : note pressed correctly, or null
    call,            \* the most recent call made on the program
    result,          \* value returned by the most recent handler call
    prev,            \* the session state right before the most recent call
    before,          \* the call made before the most recent one, and its result
    pendingArm,      \* history of the current correct press (see TrackArmPress)
    outcomes,        \* perfect play: results returned since the last reset
    score,           \* App: score.expectedNotes of the last render
    resetPending,    \* App: the reset effect is scheduled but has not run
    cursorFeedback   \* App: cursorFeedback state

VARIABLES
    gen,             \* generateScore: the locals of the call in progress
    genRef,          \* a completed generateScore call kept for comparison
    pitchArgs,       \* naturalPitchesInRange: the arguments of the last call
    pitchResult,     \* naturalPitchesInRange: the value it returned
    epoch,           \* number of resets the session has seen
    inflight,        \* device events sent but not yet delivered to the session
    delivered        \* the event delivered last, with the epoch it was sent in

VARIABLES
    conv,            \* pitchToMidi: two pitches and the numbers returned for them
    midi,            \* useMidiInput: held notes, device binding, last message
    settings,        \* App: the range, the note count and the hydration flag
    storage          \* indexedDb: the database and the calls made on it

VARIABLES
    staff,           \* Staff: the scores requested and the renders in flight
    rngDraw,         \* createRng / pick: a generator state and its last draw
    practice,        \* App: the practice page, its counters and session runs
    trainings        \* storage: the trainings store and the seedTrainings calls

appVars == <<score, resetPending, cursorFeedback>>
hookVars == <<expectedNotes, cursor, armedNote, call, result, prev, before,
              pendingArm, outcomes, score, resetPending, cursorFeedback>>
genVars == <<gen, genRef>>
pitchVars == <<pitchArgs, pitchResult>>
staleVars == <<epoch, inflight, delivered>>
\* the variables outside the session hook and the App wiring
lateVars == <<staff, rngDraw, practice, trainings>>
restVars == <<conv, midi, settings, storage, lateVars>>
extVars == <<genVars, pitchVars, staleVars, restVars>>
vars == <<expectedNotes, cursor, armedNote, call, result, prev, before,
          pendingArm, outcomes, score, resetPending, cursorFeedback,
          gen, genRef, pitchArgs, pitchResult, epoch, inflight, delivered,
          conv, midi, settings, storage, staff, rngDraw, practice, trainings>>

\* the three refs of the hook as one value
session ==
    [expectedNotes |-> expectedNotes, cursor |-> cursor, armedNote |-> armedNote]

\* reset that forgets to clear the armed note
reset_keepArmed(notes) ==
    [expectedNotes |-> notes, cursor |-> 0, armedNote |-> armedNote]

\* reset that forgets to rewind the cursor
reset_keepCursor(notes) ==
    [expectedNotes |-> notes, cursor |-> cursor, armedNote |-> null]

\* reset(notes): the session state it leaves
reset(notes) ==
    [expectedNotes |-> notes, cursor |-> 0, armedNote |-> null]

\* press-only matching: a correct press advances the cursor at once
handleNoteOn_advanceOnPress(midiNote, s) ==
    LET idx == s.cursor IN
    IF idx >= Len(s.expectedNotes)
    THEN [state |-> s, result |-> "complete"]
    ELSE IF midiNote = s.expectedNotes[idx + 1]
    THEN [state |-> [s EXCEPT !.cursor = idx + 1], result |-> "correct"]
    ELSE [state |-> s, result |-> "wrong"]

\* a wrong press skips the expected note
handleNoteOn_skipOnWrong(midiNote, s) ==
    LET idx == s.cursor IN
    IF idx >= Len(s.expectedNotes)
    THEN [state |-> s, result |-> "complete"]
    ELSE IF s.armedNote # null
    THEN [state |-> s,
          result |-> IF midiNote = s.armedNote THEN "correct" ELSE "wrong"]
    ELSE IF midiNote = s.expectedNotes[idx + 1]
    THEN [state |-> [s EXCEPT !.armedNote = midiNote], result |-> "correct"]
    ELSE [state |-> [s EXCEPT !.cursor = idx + 1], result |-> "wrong"]

\* a wrong press while a note is armed displaces the armed note
handleNoteOn_displace(midiNote, s) ==
    LET idx == s.cursor IN
    IF idx >= Len(s.expectedNotes)
    THEN [state |-> s, result |-> "complete"]
    ELSE IF s.armedNote # null
    THEN IF midiNote = s.armedNote
         THEN [state |-> s, result |-> "correct"]
         ELSE [state |-> [s EXCEPT !.armedNote = null], result |-> "wrong"]
    ELSE IF midiNote = s.expectedNotes[idx + 1]
    THEN [state |-> [s EXCEPT !.armedNote = midiNote], result |-> "correct"]
    ELSE [state |-> s, result |-> "wrong"]

\* no terminal check: past the end expectedNotes[idx] is undefined and
\* compares unequal to every note
handleNoteOn_noTerminal(midiNote, s) ==
    LET idx == s.cursor IN
    IF s.armedNote # null
    THEN [state |-> s,
          result |-> IF midiNote = s.armedNote THEN "correct" ELSE "wrong"]
    ELSE IF idx < Len(s.expectedNotes) /\ midiNote = s.expectedNotes[idx + 1]
    THEN [state |-> [s EXCEPT !.armedNote = midiNote], result |-> "correct"]
    ELSE [state |-> s, result |-> "wrong"]

\* handleNoteOn(midiNote) called in session state s: the state it leaves and
\* the value it returns
handleNoteOn(midiNote, s) ==
    LET idx == s.cursor IN
    IF idx >= Len(s.expectedNotes)
    THEN [state |-> s, result |-> "complete"]
    ELSE IF s.armedNote # null
    THEN [state |-> s,
          result |-> IF midiNote = s.armedNote THEN "correct" ELSE "wrong"]
    ELSE IF midiNote = s.expectedNotes[idx + 1]
    THEN [state |-> [s EXCEPT !.armedNote = midiNote], result |-> "correct"]
    ELSE [state |-> s, result |-> "wrong"]

\* end test written with > instead of >=
handleNoteOff_strictEnd(midiNote, s) ==
    IF s.armedNote = null \/ midiNote # s.armedNote
    THEN [state |-> s, result |-> "idle"]
    ELSE LET t == [s EXCEPT !.armedNote = null, !.cursor = s.cursor + 1] IN
         [state |-> t,
          result |-> IF t.cursor > Len(t.expectedNotes)
                     THEN "complete" ELSE "advanced"]

\* the release of any key advances while a note is armed
handleNoteOff_anyKey(midiNote, s) ==
    IF s.armedNote = null
    THEN [state |-> s, result |-> "idle"]
    ELSE LET t == [s EXCEPT !.armedNote = null, !.cursor = s.cursor + 1] IN
         [state |-> t,
          result |-> IF t.cursor >= Len(t.expectedNotes)
                     THEN "complete" ELSE "advanced"]

\* the release advances the cursor but leaves the note armed
handleNoteOff_keepArmed(midiNote, s) ==
    IF s.armedNote = null \/ midiNote # s.armedNote
    THEN [state |-> s, result |-> "idle"]
    ELSE LET t == [s EXCEPT !.cursor = s.cursor + 1] IN
         [state |-> t,
          result |-> IF t.cursor >= Len(t.expectedNotes)
                     THEN "complete" ELSE "advanced"]

\* handleNoteOff(midiNote) called in session state s: the state it leaves and
\* the value it returns
handleNoteOff(midiNote, s) ==
    IF s.armedNote = null \/ midiNote # s.armedNote
    THEN [state |-> s, result |-> "idle"]
    ELSE LET t == [s EXCEPT !.armedNote = null, !.cursor = s.cursor + 1] IN
         [state |-> t,
          result |-> IF t.cursor >= Len(t.expectedNotes)
                     THEN "complete" ELSE "advanced"]

(* ------------------------- observation history ------------------------- *)

\* no correct press is awaiting its release
NoArm ==
    [phase |-> "none", key |-> null, outcome |-> "none", cursor |-> 0,
     presses |-> 0, releases |-> 0, same |-> FALSE]

\* counts inserted events, saturating at MaxInserted
Bump(n) == IF n < MaxInserted THEN n + 1 ELSE n

\* pendingArm after a press of k that returned r and left session state s.
\* A correct press outside an armed window opens the window and records what
\* the matching release would return, and the cursor it would leave, if it
\* came at once.  Inside the window, presses of other keys are counted.
TrackArmPress(k, r, s) ==
    IF pendingArm.phase = "armed"
    THEN IF k # pendingArm.key
         THEN [pendingArm EXCEPT !.presses = Bump(@)]
         ELSE [pendingArm EXCEPT !.same = TRUE]
    ELSE IF r = "correct"
    THEN [phase |-> "armed", key |-> k,
          outcome |-> handleNoteOff(k, s).result,
          cursor |-> handleNoteOff(k, s).state.cursor,
          presses |-> 0, releases |-> 0, same |-> FALSE]
    ELSE NoArm

\* pendingArm after a release of k: the release of the recorded key closes
\* the window, releases of other keys are counted.
TrackArmRelease(k) ==
    IF pendingArm.phase = "armed"
    THEN IF k # pendingArm.key
         THEN [pendingArm EXCEPT !.releases = Bump(@)]
         ELSE [pendingArm EXCEPT !.phase = "released"]
    ELSE NoArm

\* the record of one call
Call(op, note, notes) == [op |-> op, note |-> note, notes |-> notes]

\* no call has been made yet
NoCall == [op |-> "init", note |-> null, empty |-> TRUE, result |-> "none"]

(* ------------------ values of the parts that are at rest --------------- *)

\* no generateScore call has been made
NoConfig ==
    [minMidi |-> 0, maxMidi |-> 0, clef |-> "treble", notesPerMeasure |-> 0,
     totalNotes |-> 0, seed |-> 0]

NoGen == [pc |-> "idle", config |-> NoConfig, rng |-> <<0, 0>>, pool |-> <<>>,
          measureXmls |-> <<>>, expectedNotes |-> <<>>, remaining |-> 0,
          measureNumber |-> 1, error |-> "none"]

\* no completed call is kept
NoRef == [kept |-> FALSE, config |-> NoConfig, xml |-> <<>>,
          expectedNotes |-> <<>>, calls |-> 0]

\* no event has been delivered
NoEvent == [kind |-> "none", key |-> null, epoch |-> 0]

GenIdle == gen = NoGen /\ genRef = NoRef
\* naturalPitchesInRange has not returned
NoPitches == [done |-> FALSE, pitches |-> <<>>]

PitchIdle == pitchArgs = <<0, 0>> /\ pitchResult = NoPitches
StaleIdle == epoch = 0 /\ inflight = <<>> /\ delivered = NoEvent

\* pitchToMidi has not been called
NoConv == [done |-> FALSE, pitches |-> <<>>, midi |-> <<>>]

ConvIdle == conv = NoConv

\* the effect of useMidiInput has not run
NoMidi ==
    [pc |-> "idle", supported |-> TRUE, status |-> "Checking MIDI support",
     heldNotes |-> {}, access |-> "none", bound |-> FALSE,
     stalePending |-> FALSE, staleBound |-> FALSE,
     via |-> "none", data |-> <<>>, heldBefore |-> {}, emitted |-> <<>>,
     threw |-> FALSE, pressed |-> {}, repeated |-> FALSE]

MidiIdle == midi = NoMidi

\* number of note names on the range steppers, the lowest and the highest
\* included
NumNoteNames == 2

\* the lowest note names of the keyboard, in ascending order
LowNoteNames == <<"A0", "B0", "C1", "D1", "E1", "F1">>

\* NOTE_NAMES of entities/score: ascending, from DEFAULT_MIN_NOTE to
\* DEFAULT_MAX_NOTE
ScoreNoteNames == SubSeq(LowNoteNames, 1, NumNoteNames - 1) \o <<"C8">>

MIN_TOTAL_NOTES == 4
MAX_TOTAL_NOTES == 200
DEFAULT_TOTAL_NOTES == 20
DEFAULT_MIN_NOTE == "A0"
DEFAULT_MAX_NOTE == "C8"

\* the App is not mounted.  mounts and edits count the page loads and the
\* edits made so far; last names the last step and changed tells whether it
\* changed the theme, the range or the note count
NoSettings ==
    [mounted |-> FALSE, hydration |-> "idle", isStorageHydrated |-> FALSE,
     themeMode |-> "system", minNote |-> DEFAULT_MIN_NOTE, maxNote |-> DEFAULT_MAX_NOTE,
     totalNotes |-> DEFAULT_TOTAL_NOTES, seed |-> 1, practising |-> FALSE,
     sessionRuns |-> {}, mounts |-> 0, edits |-> 0, last |-> "none",
     changed |-> FALSE]

SettingsIdle == settings = NoSettings

\* the database before the App ever ran: both object stores are empty.  A
\* store is the set of its records, a missing record (null) is the empty
\* set.  issued holds the identifiers crypto.randomUUID has returned; calls,
\* raised, loaded, listed and runsBefore describe the last step: the storage
\* functions it called, whether one of them raised, what the two reads
\* returned and the session-run store before the step
NoStorage ==
    [mode |-> "ok", settings |-> {}, sessionRuns |-> {}, issued |-> {},
     calls |-> {}, raised |-> FALSE, loaded |-> {}, listed |-> {},
     runsBefore |-> {}]

StorageIdle == storage = NoStorage

\* the Staff has not rendered: no score was requested, no load is in flight
\* and expectedRef holds its initial value
NoStaff == [requested |-> <<>>, pending |-> {}, expectedRef |-> <<>>]

\* no generator has been created: state is the generator state, out the
\* numerator of the last draw, length and index the pool size and the index
\* of the last pick, draws the number of draws made
NoDraw ==
    [state |-> <<0, 0>>, out |-> <<0, 0>>, length |-> 0, index |-> 0,
     draws |-> 0]

\* the App on the setup page before its first render: the state values with
\* every queued update applied, session holding the three refs of the hook,
\* and shown, the values of the last render, which the callbacks and effects
\* of that render read; scoreDue says that the score has been generated anew
\* since. created counts the session runs finishSession has created,
\* completions the releases that took the cursor to the end and manual the
\* uses of the finish button; last is the last step and what it returned,
\* was holds the counters before it, starts counts the sessions started
NoPractice ==
    [page |-> "setup", seed |-> 1, totalNotes |-> 0, score |-> <<>>,
     session |-> [expectedNotes |-> <<>>, cursor |-> 0, armedNote |-> -1],
     completedNotes |-> 0, attempts |-> 0, correctAttempts |-> 0,
     autoFinishToken |-> 0,
     shown |-> [page |-> "setup", seed |-> 1, completedNotes |-> 0,
                attempts |-> 0, correctAttempts |-> 0, autoFinishToken |-> 0],
     scoreDue |-> FALSE,
     created |-> 0, completions |-> 0, manual |-> 0,
     starts |-> 0, last |-> <<"none", "none">>,
     was |-> [completedNotes |-> 0, attempts |-> 0, correctAttempts |-> 0]]

\* calls of seedTrainings, and trainings of the seed
MaxSeedCalls == 3
NumSeedTrainings == 2

\* the ids of the trainings every call of seedTrainings is given
SeedTrainings == 1..NumSeedTrainings

\* the database before seedTrainings is called: the ids in the store of
\* custom trainings, whether the settings store holds the seeded key, and
\* where each call of seedTrainings stands; writes counts the transactions
\* that have written the seed, late those of them that committed when the
\* seeded key was already set, deleted holds the ids the user has deleted
NoTrainings ==
    [store |-> {}, seeded |-> FALSE,
     calls |-> [c \in 1..MaxSeedCalls |-> "idle"],
     writes |-> 0, late |-> 0, deleted |-> {}]

LateIdle ==
    /\ staff = NoStaff
    /\ rngDraw = NoDraw
    /\ practice = NoPractice
    /\ trainings = NoTrainings

RestIdle == ConvIdle /\ MidiIdle /\ SettingsIdle /\ StorageIdle /\ LateIdle

(* --------------------------- hook in isolation ------------------------- *)

Init ==
    /\ expectedNotes = <<>>
    /\ cursor = 0
    /\ armedNote = null
    /\ call = Call("init", null, <<>>)
    /\ result = "none"
    /\ prev = reset(<<>>)
    /\ before = NoCall
    /\ pendingArm = NoArm
    /\ outcomes = <<>>
    /\ score = <<>>
    /\ resetPending = FALSE
    /\ cursorFeedback = "idle"
    /\ GenIdle /\ PitchIdle /\ StaleIdle /\ RestIdle

\* the session variables take the values of record s
SetSession(s) ==
    /\ expectedNotes' = s.expectedNotes
    /\ cursor' = s.cursor
    /\ armedNote' = s.armedNote

\* the observation of a call c that returned r
Observe(c, r) ==
    /\ call' = c
    /\ result' = r
    /\ prev' = session

\* a call of reset(notes)
Reset(notes) ==
    /\ SetSession(reset(notes))
    /\ Observe(Call("reset", null, notes), "none")

\* a call of handleNoteOn(k)
NoteOn(k) ==
    LET r == handleNoteOn(k, session) IN
    /\ SetSession(r.state)
    /\ Observe(Call("noteOn", k, <<>>), r.result)

\* a call of handleNoteOff(k)
NoteOff(k) ==
    LET r == handleNoteOff(k, session) IN
    /\ SetSession(r.state)
    /\ Observe(Call("noteOff", k, <<>>), r.result)

\* the previous call is remembered: its operation, its note, whether it
\* passed an empty sequence, and the value it returned
Remember ==
    before' = [op |-> call.op, note |-> call.note,
               empty |-> call.notes = <<>>, result |-> result]

\* reset is called with any sequence, in any state
DoReset ==
    \E notes \in NoteSeqs :
        /\ Reset(notes)
        /\ Remember
        /\ pendingArm' = NoArm
        /\ UNCHANGED <<outcomes, appVars, extVars>>

\* any key is pressed, in any state
DoNoteOn ==
    \E k \in Keys :
        /\ NoteOn(k)
        /\ Remember
        /\ pendingArm' = TrackArmPress(k, result', session')
        /\ UNCHANGED <<outcomes, appVars, extVars>>

\* any key is released, in any state
DoNoteOff ==
    \E k \in Keys :
        /\ NoteOff(k)
        /\ Remember
        /\ pendingArm' = TrackArmRelease(k)
        /\ UNCHANGED <<outcomes, appVars, extVars>>

Next == DoReset \/ DoNoteOn \/ DoNoteOff

Spec == Init /\ [][Next]_vars

(* ------------------- claims on the session state machine --------------- *)

\* C1: within one reset epoch the cursor never decreases; no onPress call
\* changes the cursor; and the cursor grows by exactly 1 when, and only when,
\* an onRelease releases the key that was armed.
C1_CursorMonotone ==
    /\ call.op # "reset" => cursor >= prev.cursor
    /\ call.op = "noteOn" => cursor = prev.cursor
    /\ call.op = "noteOff" =>
         cursor = IF prev.armedNote # null /\ call.note = prev.armedNote
                  THEN prev.cursor + 1
                  ELSE prev.cursor

C1_Witness ==
    /\ call.op = "noteOff"
    /\ prev.armedNote = call.note
    /\ cursor = prev.cursor + 1
    /\ cursor >= 2

\* C2: onRelease(k) with k the armed key clears armedKey and increments the
\* cursor by 1; it returns complete exactly when the new cursor equals
\* expectedKeys.length, and advanced otherwise.
C2_MatchingRelease ==
    (call.op = "noteOff" /\ prev.armedNote # null /\ call.note = prev.armedNote)
    => /\ armedNote = null
       /\ cursor = prev.cursor + 1
       /\ result = IF cursor = Len(expectedNotes) THEN "complete" ELSE "advanced"

C2_Witness ==
    /\ call.op = "noteOff"
    /\ prev.armedNote = call.note
    /\ result = "complete"
    /\ Len(expectedNotes) >= 2

\* C3: onPress(k) with no key armed and cursor < expectedKeys.length: if k is
\* expectedKeys[cursor] it arms k and returns correct; otherwise it returns
\* wrong and leaves cursor, armedKey and expectedKeys unchanged.
C3_PressWhenAwaiting ==
    (call.op = "noteOn" /\ prev.armedNote = null
        /\ prev.cursor < Len(prev.expectedNotes))
    => IF call.note = prev.expectedNotes[prev.cursor + 1]
       THEN armedNote = call.note /\ result = "correct"
       ELSE result = "wrong" /\ session = prev

C3_Witness ==
    /\ call.op = "noteOn"
    /\ prev.armedNote = null
    /\ prev.cursor > 0
    /\ prev.cursor < Len(prev.expectedNotes)
    /\ result = "wrong"

\* C4: onPress(k) while a key is armed returns correct if k is the armed key
\* and wrong otherwise, and leaves cursor, armedKey and expectedKeys
\* unchanged in both cases.
C4_PressWhileArmed ==
    (call.op = "noteOn" /\ prev.armedNote # null)
    => /\ result = IF call.note = prev.armedNote THEN "correct" ELSE "wrong"
       /\ session = prev

C4_Witness ==
    /\ call.op = "noteOn"
    /\ prev.armedNote # null
    /\ call.note # prev.armedNote
    /\ result = "wrong"
    /\ armedNote = prev.armedNote

\* C5: onRelease(k) with no key armed, or with k different from the armed
\* key, returns idle and leaves cursor, armedKey and expectedKeys unchanged;
\* the release of a key whose press was reported wrong is such a release.
C5_OtherRelease ==
    (call.op = "noteOff" /\ (prev.armedNote = null \/ call.note # prev.armedNote))
    => result = "idle" /\ session = prev

C5_Witness ==
    /\ call.op = "noteOff"
    /\ before.op = "noteOn"
    /\ before.note = call.note
    /\ before.result = "wrong"
    /\ result = "idle"
    /\ cursor < Len(expectedNotes)

\* C6: once cursor >= expectedKeys.length, every onPress(k), for any k and
\* however often repeated, returns complete and changes no session state.
C6_TerminalPress ==
    (call.op = "noteOn" /\ prev.cursor >= Len(prev.expectedNotes))
    => result = "complete" /\ session = prev

C6_Witness ==
    /\ call.op = "noteOn"
    /\ result = "complete"
    /\ before.op = "noteOn"
    /\ before.result = "complete"
    /\ Len(expectedNotes) > 0

\* C7: reset(keys), called in any state, sets expectedKeys = keys, cursor = 0
\* and armedKey = none; after reset(<<>>) the next onPress returns complete.
C7_Reset ==
    /\ call.op = "reset" =>
         session = [expectedNotes |-> call.notes, cursor |-> 0,
                    armedNote |-> null]
    /\ (call.op = "noteOn" /\ before.op = "reset" /\ before.empty)
       => result = "complete"

C7_Witness ==
    /\ call.op = "reset"
    /\ prev.armedNote # null
    /\ prev.cursor > 0
    /\ call.notes # prev.expectedNotes
    /\ call.notes # <<>>

\* C9: however many presses and releases of keys other than the armed key are
\* inserted between a correct press and its matching release, the matching
\* release returns the outcome, and leaves the cursor, that it would have
\* returned and left right after the correct press.
C9_InsertedEventsHarmless ==
    (pendingArm.phase = "released" /\ ~pendingArm.same)
    => result = pendingArm.outcome /\ cursor = pendingArm.cursor

C9_Witness ==
    /\ pendingArm.phase = "released"
    /\ ~pendingArm.same
    /\ pendingArm.presses = MaxInserted
    /\ pendingArm.releases = MaxInserted
    /\ result = "advanced"

(* ------------------------------ perfect play -------------------------- *)

\* reset(keys) with a non-empty sequence starts a new run
PlayReset ==
    \E keys \in NoteSeqs \ {<<>>} :
        /\ Reset(keys)
        /\ outcomes' = <<>>
        /\ UNCHANGED <<before, pendingArm, appVars, extVars>>

\* the player presses the expected key of the next position
PlayPress ==
    /\ Len(outcomes) < 2 * Len(expectedNotes)
    /\ Len(outcomes) % 2 = 0
    /\ NoteOn(expectedNotes[(Len(outcomes) \div 2) + 1])
    /\ outcomes' = Append(outcomes, result')
    /\ UNCHANGED <<before, pendingArm, appVars, extVars>>

\* the player releases the key just pressed
PlayRelease ==
    /\ Len(outcomes) < 2 * Len(expectedNotes)
    /\ Len(outcomes) % 2 = 1
    /\ NoteOff(expectedNotes[(Len(outcomes) \div 2) + 1])
    /\ outcomes' = Append(outcomes, result')
    /\ UNCHANGED <<before, pendingArm, appVars, extVars>>

NextPlay == PlayReset \/ PlayPress \/ PlayRelease

SpecPlay == Init /\ [][NextPlay]_vars

\* C8: after reset(keys) with non-empty keys, pressing and releasing keys[i]
\* for i = 0..n-1 in order returns correct for every press, advanced for
\* every release but the last and complete for the last release, and ends
\* with cursor = keys.length.
C8_PerfectPlay ==
    LET n == Len(expectedNotes) IN
    /\ \A i \in 1..Len(outcomes) :
         outcomes[i] = IF i % 2 = 1 THEN "correct"
                       ELSE IF i = 2 * n THEN "complete"
                       ELSE "advanced"
    /\ (n > 0 /\ Len(outcomes) = 2 * n) => cursor = n

C8_Witness ==
    /\ Len(expectedNotes) = MaxLen
    /\ Len(outcomes) = 2 * MaxLen
    /\ call.op = "noteOff"

(* ------------------------- App: score regeneration --------------------- *)

\* the expected-note sequences App generates: never empty, since the note
\* count is clamped to at least MIN_TOTAL_NOTES
ScoreSeqs == NoteSeqs \ {<<>>}

\* the state after the first render of App: the score is generated, the
\* session refs hold their initial values, the reset effect has yet to run
InitApp ==
    /\ expectedNotes = <<>>
    /\ cursor = 0
    /\ armedNote = null
    /\ call = Call("init", null, <<>>)
    /\ result = "none"
    /\ prev = reset(<<>>)
    /\ before = NoCall
    /\ pendingArm = NoArm
    /\ outcomes = <<>>
    /\ score \in ScoreSeqs
    /\ resetPending = TRUE
    /\ cursorFeedback = "idle"
    /\ GenIdle /\ PitchIdle /\ StaleIdle /\ RestIdle

\* a change of seed or settings re-renders App with a newly generated score;
\* the reset effect is scheduled.  Pending effects of the previous render are
\* flushed before a new render starts.
AppNewScore ==
    \E notes \in ScoreSeqs :
        /\ ~resetPending
        /\ score' = notes
        /\ resetPending' = TRUE
        /\ Observe(Call("newScore", null, notes), "none")
        /\ UNCHANGED <<expectedNotes, cursor, armedNote, before, pendingArm, extVars,
                       outcomes, cursorFeedback>>

\* the effect "reset the session whenever a new score is generated"
AppResetEffect ==
    /\ resetPending
    /\ Reset(score)
    /\ cursorFeedback' = "idle"
    /\ resetPending' = FALSE
    /\ UNCHANGED <<before, pendingArm, extVars, outcomes, score>>

\* onNoteOn(note)
AppOnNoteOn ==
    \E note \in Keys :
        /\ NoteOn(note)
        /\ cursorFeedback' = IF result' = "correct" THEN "correct" ELSE "wrong"
        /\ UNCHANGED <<before, pendingArm, extVars, outcomes, score, resetPending>>

\* onNoteOff(note)
AppOnNoteOff ==
    \E note \in Keys :
        /\ NoteOff(note)
        /\ cursorFeedback' = IF result' \in {"advanced", "complete"}
                             THEN "idle" ELSE cursorFeedback
        /\ UNCHANGED <<before, pendingArm, extVars, outcomes, score, resetPending>>

\* onAllNotesOff()
AppOnAllNotesOff ==
    /\ cursorFeedback' = "idle"
    /\ Observe(Call("allNotesOff", null, <<>>), "none")
    /\ UNCHANGED <<expectedNotes, cursor, armedNote, before, pendingArm, extVars,
                   outcomes, score, resetPending>>

NextApp ==
    AppNewScore \/ AppResetEffect \/ AppOnNoteOn \/ AppOnNoteOff
        \/ AppOnAllNotesOff

SpecApp == InitApp /\ [][NextApp]_vars

\* C10: when a new score is generated while a key is armed, the reset effect
\* replaces the session state in one step: right after it the session holds
\* the new score's expected notes with cursor = 0 and no armed key, whatever
\* the cursor and armed key of the previous score were; and whenever no reset
\* is pending the session's expected notes are those of the current score.
C10_RegenerateReplaces ==
    /\ call.op = "reset" =>
         /\ ~resetPending
         /\ expectedNotes = score
         /\ cursor = 0
         /\ armedNote = null
         /\ cursorFeedback = "idle"
    /\ ~resetPending => expectedNotes = score

C10_Witness ==
    /\ call.op = "reset"
    /\ prev.armedNote # null
    /\ prev.cursor > 0
    /\ prev.expectedNotes # score
    /\ score # <<>>

(* ------------------------------ pitch model ---------------------------- *)

\* highest MIDI note number given to naturalPitchesInRange
MaxMidi == 127

\* semitone offset of each natural note within an octave
SEMITONE_OFFSET ==
    [C |-> 0, D |-> 2, E |-> 4, F |-> 5, G |-> 7, A |-> 9, B |-> 11]

\* all natural note names in ascending order
NOTE_NAMES == <<"C", "D", "E", "F", "G", "A", "B">>

\* the last octave the enumeration visits
LastOctave == 8

\* an octave is taken to span eleven key numbers
pitchToMidi_octave11(pitch) == (pitch.octave + 1) * 11 + SEMITONE_OFFSET[pitch.step]

\* pitchToMidi(pitch)
pitchToMidi(pitch) == (pitch.octave + 1) * 12 + SEMITONE_OFFSET[pitch.step]

\* the inner loop of naturalPitchesInRange for one octave: the pitches it
\* pushes, in NOTE_NAMES order
StepLoop(octave, minMidi, maxMidi) ==
    LET InRange(p) == pitchToMidi(p) >= minMidi /\ pitchToMidi(p) <= maxMidi
    IN SelectSeq([i \in 1..Len(NOTE_NAMES) |->
                     [step |-> NOTE_NAMES[i], octave |-> octave]], InRange)

\* the outer loop of naturalPitchesInRange from octave `octave` up to octave
\* `last`; `pitches` is the array built so far
RECURSIVE PitchLoop(_, _, _, _, _)
PitchLoop(octave, last, minMidi, maxMidi, pitches) ==
    IF octave > last THEN pitches
    ELSE PitchLoop(octave + 1, last, minMidi, maxMidi,
                   pitches \o StepLoop(octave, minMidi, maxMidi))

\* the octave loop stops one octave early
naturalPitchesInRange_shortLoop(minMidi, maxMidi) ==
    PitchLoop(0, LastOctave - 1, minMidi, maxMidi, <<>>)

\* the lower end of the range is taken one key too low
naturalPitchesInRange_belowMin(minMidi, maxMidi) ==
    PitchLoop(0, LastOctave, minMidi - 1, maxMidi, <<>>)

\* naturalPitchesInRange(minMidi, maxMidi)
naturalPitchesInRange(minMidi, maxMidi) ==
    PitchLoop(0, LastOctave, minMidi, maxMidi, <<>>)

\* the variables that naturalPitchesInRange does not touch
notPitchVars == <<hookVars, genVars, staleVars, restVars>>

\* the arguments are any two note numbers
InitPitch ==
    /\ expectedNotes = <<>>
    /\ cursor = 0
    /\ armedNote = null
    /\ call = Call("init", null, <<>>)
    /\ result = "none"
    /\ prev = reset(<<>>)
    /\ before = NoCall
    /\ pendingArm = NoArm
    /\ outcomes = <<>>
    /\ score = <<>>
    /\ resetPending = FALSE
    /\ cursorFeedback = "idle"
    /\ GenIdle /\ StaleIdle /\ RestIdle
    /\ pitchArgs \in (0..MaxMidi) \X (0..MaxMidi)
    /\ pitchResult = NoPitches

\* the call of naturalPitchesInRange on the arguments
CallNaturalPitches ==
    /\ ~pitchResult.done
    /\ pitchResult' =
         [done |-> TRUE,
          pitches |-> naturalPitchesInRange(pitchArgs[1], pitchArgs[2])]
    /\ UNCHANGED <<pitchArgs, notPitchVars>>

NextPitch == CallNaturalPitches

SpecPitch == InitPitch /\ [][NextPitch]_vars

\* every natural pitch of octaves 0..8
AllPitches ==
    [step : {NOTE_NAMES[i] : i \in 1..Len(NOTE_NAMES)}, octave : 0..8]

\* C20: naturalPitchesInRange(minKey, maxKey) returns exactly the natural
\* pitches of octaves 0..8 whose key-number lies in [minKey, maxKey], each
\* once and in strictly ascending key-number order; a range holding no
\* natural pitch gives the empty sequence; (60,62) gives [C4, D4] and
\* (61,61) gives [].
C20_NaturalPitchesInRange ==
    pitchResult.done =>
      LET r == pitchResult.pitches
          minKey == pitchArgs[1]
          maxKey == pitchArgs[2]
      IN /\ \A i \in 1..(Len(r) - 1) : pitchToMidi(r[i]) < pitchToMidi(r[i + 1])
         /\ {r[i] : i \in 1..Len(r)}
              = {p \in AllPitches : pitchToMidi(p) >= minKey
                                      /\ pitchToMidi(p) <= maxKey}
         /\ pitchArgs = <<60, 62>> =>
              r = <<[step |-> "C", octave |-> 4], [step |-> "D", octave |-> 4]>>
         /\ pitchArgs = <<61, 61>> => r = <<>>

C20_Witness ==
    /\ pitchResult.done
    /\ pitchArgs = <<60, 62>>
    /\ Len(pitchResult.pitches) = 2

(* ----------------------- 32-bit integer arithmetic ---------------------- *)

\* A 32-bit word is the pair <<high 16 bits, low 16 bits>>, so that no
\* intermediate value leaves the range of the model checker's integers.
Half == 65536

\* bitwise exclusive or of two naturals
RECURSIVE Xor(_, _)
Xor(a, b) ==
    IF a = 0 THEN b
    ELSE IF b = 0 THEN a
    ELSE 2 * Xor(a \div 2, b \div 2) + ((a + b) % 2)

\* bitwise or of two naturals
RECURSIVE Or(_, _)
Or(a, b) ==
    IF a = 0 THEN b
    ELSE IF b = 0 THEN a
    ELSE 2 * Or(a \div 2, b \div 2) + (IF a % 2 = 1 \/ b % 2 = 1 THEN 1 ELSE 0)

\* the two operations on 4-bit digits, tabulated
XorDigit == [a \in 0..15 |-> [b \in 0..15 |-> Xor(a, b)]]

OrDigit == [a \in 0..15 |-> [b \in 0..15 |-> Or(a, b)]]

\* a digit-wise operation on two 16-bit numbers
Digitwise(table, a, b) ==
    table[a % 16][b % 16]
    + 16 * table[(a \div 16) % 16][(b \div 16) % 16]
    + 256 * table[(a \div 256) % 16][(b \div 256) % 16]
    + 4096 * table[a \div 4096][b \div 4096]

\* x ^ y on words
XorW(x, y) == <<Digitwise(XorDigit, x[1], y[1]), Digitwise(XorDigit, x[2], y[2])>>

\* x | y on words
OrW(x, y) == <<Digitwise(OrDigit, x[1], y[1]), Digitwise(OrDigit, x[2], y[2])>>

\* (x + y) modulo 2^32
AddW(x, y) ==
    LET lo == x[2] + y[2]
    IN <<(x[1] + y[1] + (lo \div Half)) % Half, lo % Half>>

\* 2^n for the shift distances used
RECURSIVE Pow2(_)
Pow2(n) == IF n = 0 THEN 1 ELSE 2 * Pow2(n - 1)

\* x >>> n for 0 < n < 16
ShrW(x, n) ==
    <<x[1] \div Pow2(n),
      (x[2] \div Pow2(n)) + (x[1] % Pow2(n)) * Pow2(16 - n)>>

\* the full product of two 16-bit numbers, as a word
Mul16(a, b) ==
    LET p0 == a * (b % 256)
        p1 == a * (b \div 256)
        s == p0 + (p1 % 256) * 256
    IN <<((p1 \div 256) + (s \div Half)) % Half, s % Half>>

\* Math.imul(x, y): the low 32 bits of the product
ImulW(x, y) ==
    LET low == Mul16(x[2], y[2])
        cross == (Mul16(x[1], y[2])[2] + Mul16(x[2], y[1])[2]) % Half
    IN <<(low[1] + cross) % Half, low[2]>>

(* --------------------------- deterministic PRNG ------------------------ *)

\* the increment 0x6d2b79f5 of the generator state
RngIncrement == <<27947, 31221>>

\* createRng that keeps the state left by the previous generator instead of
\* seeding a new one
createRng_shared(seed) == gen.rng

\* createRng(seed): the initial state, seed >>> 0
createRng(seed) == <<(seed \div Half) % Half, seed % Half>>

\* one call of the function returned by createRng, in state `state`: the new
\* state and the 32-bit numerator of the value returned (value = out / 2^32)
rngNext(state) ==
    LET s1 == AddW(state, RngIncrement)
        t1 == ImulW(XorW(s1, ShrW(s1, 15)), OrW(s1, <<0, 1>>))
        t2 == XorW(t1, AddW(t1, ImulW(XorW(t1, ShrW(t1, 7)), OrW(t1, <<0, 61>>))))
    IN [state |-> s1, out |-> XorW(t2, ShrW(t2, 14))]

\* Math.round instead of Math.floor
pickIndex_round(out, length) ==
    (out[1] * length + ((out[2] * length + (Half \div 2)) \div Half)
        + (Half \div 2)) \div Half

\* Math.floor(rng() * length) for the draw with numerator `out`
pickIndex(out, length) ==
    (out[1] * length + ((out[2] * length) \div Half)) \div Half

(* --------------------------- score generation -------------------------- *)

MaxGroup == 3
MaxTotal == 4
MaxSeed == 1

\* the while loop of generateScore is followed for at most this many measures
MaxMeasures == MaxTotal + 2

\* MusicXML divisions per quarter note
DIVISIONS == 4

DURATION_TO_TYPE == (2 :> "eighth") @@ (4 :> "quarter") @@ (8 :> "half")

\* what indexing an array outside its bounds gives
undefined == [step |-> "undefined", octave |-> 0]

\* pick(items, rng) for the draw with numerator `out`
pick(items, out) ==
    LET index == pickIndex(out, Len(items)) + 1
    IN IF index \in DOMAIN items THEN items[index] ELSE undefined

\* serializeNote(pitch, duration): the <note> element
serializeNote(pitch, duration) ==
    [step |-> pitch.step, octave |-> pitch.octave, duration |-> duration,
     type |-> IF duration \in DOMAIN DURATION_TO_TYPE
              THEN DURATION_TO_TYPE[duration] ELSE "quarter"]

\* every score is declared in the treble clef
serializeAttributes_trebleOnly(clef) ==
    [divisions |-> DIVISIONS, fifths |-> 0, beats |-> 4, beatType |-> 4,
     sign |-> "G", line |-> 2]

\* serializeAttributes(clef): the <attributes> element
serializeAttributes(clef) ==
    [divisions |-> DIVISIONS, fifths |-> 0, beats |-> 4, beatType |-> 4,
     sign |-> IF clef = "treble" THEN "G" ELSE "F",
     line |-> IF clef = "treble" THEN 2 ELSE 4]

\* the for loop of buildMeasure: noteCount picks, each advancing the generator
RECURSIVE PickLoop(_, _, _, _)
PickLoop(pitchPool, noteCount, rng, pitches) ==
    IF Len(pitches) >= noteCount THEN [pitches |-> pitches, rng |-> rng]
    ELSE LET draw == rngNext(rng)
         IN PickLoop(pitchPool, noteCount, draw.state,
                     Append(pitches, pick(pitchPool, draw.out)))

\* the measure built from the picks; pitchToMidi of undefined is a TypeError
MeasureOf(picked, measureNumber, clef, isFirstMeasure) ==
    IF \E i \in DOMAIN picked.pitches : picked.pitches[i] = undefined
    THEN [threw |-> TRUE, xml |-> <<>>, midiNotes |-> <<>>, rng |-> picked.rng]
    ELSE [threw |-> FALSE,
          xml |-> [number |-> measureNumber,
                   attributes |-> IF isFirstMeasure
                                  THEN <<serializeAttributes(clef)>> ELSE <<>>,
                   notes |-> [i \in DOMAIN picked.pitches |->
                                 serializeNote(picked.pitches[i], DIVISIONS)]],
          midiNotes |-> [i \in DOMAIN picked.pitches |->
                            pitchToMidi(picked.pitches[i])],
          rng |-> picked.rng]

\* every measure starts a generator of its own, seeded with its number
buildMeasure_reseed(pitchPool, noteCount, measureNumber, clef, isFirstMeasure, rng) ==
    MeasureOf(PickLoop(pitchPool, noteCount, createRng(measureNumber), <<>>),
              measureNumber, clef, isFirstMeasure)

\* buildMeasure: the measure, its key numbers and the generator state it leaves
buildMeasure(pitchPool, noteCount, measureNumber, clef, isFirstMeasure, rng) ==
    MeasureOf(PickLoop(pitchPool, noteCount, rng, <<>>),
              measureNumber, clef, isFirstMeasure)

\* every measure is given notesPerMeasure notes
measureCount_noMin(notesPerMeasure, remaining) == notesPerMeasure

\* Math.min(notesPerMeasure, remaining)
measureCount(notesPerMeasure, remaining) ==
    IF notesPerMeasure < remaining THEN notesPerMeasure ELSE remaining

\* the range presets of the application, and a range without a natural pitch
RANGE_PRESETS ==
    {[minMidi |-> 60, maxMidi |-> 79, clef |-> "treble"],
     [minMidi |-> 40, maxMidi |-> 60, clef |-> "bass"]}

EmptyRange == [minMidi |-> 61, maxMidi |-> 61, clef |-> "treble"]

\* ScoreConfig with the range preset's fields written out
ScoreConfig(ranges, groups, totals) ==
    {[minMidi |-> r.minMidi, maxMidi |-> r.maxMidi, clef |-> r.clef,
      notesPerMeasure |-> n, totalNotes |-> k, seed |-> s] :
        r \in ranges, n \in groups, k \in totals, s \in 1..MaxSeed}

\* every configuration a caller can pass, the invalid ones included
Configs == ScoreConfig(RANGE_PRESETS \cup {EmptyRange}, (-1)..MaxGroup, (-1)..MaxTotal)

\* the configurations that meet the documented preconditions
ValidConfigs == ScoreConfig(RANGE_PRESETS, 1..MaxGroup, 1..MaxTotal)

notGenVars == <<hookVars, pitchVars, staleVars, restVars>>

HookIdle ==
    /\ expectedNotes = <<>>
    /\ cursor = 0
    /\ armedNote = null
    /\ call = Call("init", null, <<>>)
    /\ result = "none"
    /\ prev = reset(<<>>)
    /\ before = NoCall
    /\ pendingArm = NoArm
    /\ outcomes = <<>>
    /\ score = <<>>
    /\ resetPending = FALSE
    /\ cursorFeedback = "idle"

InitGen == HookIdle /\ GenIdle /\ PitchIdle /\ StaleIdle /\ RestIdle

\* generateScore(config) up to its while loop
Generate(config) ==
    /\ gen.pc = "idle"
    /\ gen' = [pc |-> "loop", config |-> config,
               rng |-> createRng(config.seed),
               pool |-> naturalPitchesInRange(config.minMidi, config.maxMidi),
               measureXmls |-> <<>>, expectedNotes |-> <<>>,
               remaining |-> config.totalNotes, measureNumber |-> 1,
               error |-> "none"]
    /\ genRef' = IF genRef.kept
                 THEN [genRef EXCEPT !.calls = IF @ < 2 THEN @ + 1 ELSE @]
                 ELSE genRef
    /\ UNCHANGED notGenVars

GenCall == \E config \in Configs : Generate(config)

GenCallValid == \E config \in ValidConfigs : Generate(config)

\* one iteration of the while loop of generateScore
GenLoop ==
    /\ gen.pc = "loop"
    /\ gen.remaining > 0
    /\ gen.measureNumber <= MaxMeasures
    /\ LET count == measureCount(gen.config.notesPerMeasure, gen.remaining)
           measure == buildMeasure(gen.pool, count, gen.measureNumber,
                                   gen.config.clef, gen.measureNumber = 1, gen.rng)
       IN gen' = IF measure.threw
                 THEN [gen EXCEPT !.pc = "threw", !.error = "TypeError",
                                  !.rng = measure.rng]
                 ELSE [gen EXCEPT !.rng = measure.rng,
                                  !.measureXmls = Append(@, measure.xml),
                                  !.expectedNotes = @ \o measure.midiNotes,
                                  !.remaining = @ - count,
                                  !.measureNumber = @ + 1]
    /\ UNCHANGED <<genRef, notGenVars>>

\* the loop is left and { xml, expectedNotes } is returned
GenReturn ==
    /\ gen.pc = "loop"
    /\ gen.remaining <= 0
    /\ gen' = [gen EXCEPT !.pc = "done"]
    /\ UNCHANGED <<genRef, notGenVars>>

\* the caller is done with the outcome of the call
GenDrop ==
    /\ gen.pc \in {"done", "threw"}
    /\ gen' = [NoGen EXCEPT !.rng = gen.rng]
    /\ UNCHANGED <<genRef, notGenVars>>

\* a returned score is kept, to be compared with the scores of later calls
KeepScore ==
    /\ gen.pc = "done"
    /\ ~genRef.kept
    /\ genRef' = [kept |-> TRUE, config |-> gen.config, xml |-> gen.measureXmls,
                  expectedNotes |-> gen.expectedNotes, calls |-> 0]
    /\ UNCHANGED <<gen, notGenVars>>

NextGen == GenCall \/ GenLoop \/ GenReturn \/ GenDrop

SpecGen == InitGen /\ [][NextGen]_vars

NextPair == GenCallValid \/ GenLoop \/ GenReturn \/ GenDrop \/ KeepScore

SpecPair == InitGen /\ [][NextPair]_vars

(* ------------------------ claims on score generation ------------------- *)

\* a later call has returned and an earlier score is kept
Comparable == genRef.kept /\ genRef.calls >= 1 /\ gen.pc = "done"

\* C12: two calls of generateScore with the same range, notesPerMeasure,
\* totalNotes and seed return the same expectedNotes and the same document,
\* whatever calls ran before or between them.
C12_SameInputSameScore ==
    (Comparable /\ gen.config = genRef.config) =>
        /\ gen.expectedNotes = genRef.expectedNotes
        /\ gen.measureXmls = genRef.xml

C12_Witness ==
    /\ Comparable
    /\ genRef.calls >= 2
    /\ gen.config = genRef.config
    /\ Len(gen.expectedNotes) >= 2

\* C13: with totalNotes >= 1, notesPerMeasure >= 1 and a non-empty pitch pool,
\* the expectedNotes returned have exactly totalNotes elements.
C13_LengthIsTotal ==
    (/\ gen.pc = "done"
     /\ gen.config.totalNotes >= 1
     /\ gen.config.notesPerMeasure >= 1
     /\ gen.pool # <<>>) =>
        Len(gen.expectedNotes) = gen.config.totalNotes

C13_Witness ==
    /\ gen.pc = "done"
    /\ gen.pool # <<>>
    /\ gen.config.notesPerMeasure > 1
    /\ gen.config.totalNotes > gen.config.notesPerMeasure
    /\ gen.config.totalNotes % gen.config.notesPerMeasure # 0
    /\ Len(gen.expectedNotes) = gen.config.totalNotes

\* C14: every element of the expectedNotes returned lies in [minMidi, maxMidi]
\* and is the key number of a natural pitch.
C14_KeysNaturalInRange ==
    gen.pc = "done" =>
        \A i \in DOMAIN gen.expectedNotes :
            /\ gen.expectedNotes[i] >= gen.config.minMidi
            /\ gen.expectedNotes[i] <= gen.config.maxMidi
            /\ gen.expectedNotes[i] % 12 \in {0, 2, 4, 5, 7, 9, 11}

C14_Witness ==
    /\ gen.pc = "done"
    /\ Len(gen.expectedNotes) >= 3
    /\ \E i \in DOMAIN gen.expectedNotes : gen.expectedNotes[i] = gen.config.minMidi
    /\ \E i \in DOMAIN gen.expectedNotes : gen.expectedNotes[i] = gen.config.maxMidi

\* C15: a call whose pitch pool is empty fails with InvalidRangeError before
\* any score is produced, and never returns a score.
C15_EmptyPoolFails ==
    (gen.pc \in {"done", "threw"} /\ gen.pool = <<>>) =>
        /\ gen.pc = "threw"
        /\ gen.error = "InvalidRangeError"
        /\ gen.measureNumber = 1

\* C16: a call with a non-positive totalNotes fails with a typed failure and
\* returns no score.
C16_NonPositiveTotalFails ==
    (gen.pc \in {"done", "threw"} /\ gen.config.totalNotes <= 0) =>
        /\ gen.pc = "threw"
        /\ gen.error # "none"

\* C17: every call terminates, also with notesPerMeasure < 1: each iteration
\* of the loop uses up at least one of the totalNotes notes, so the iterations
\* made and the notes remaining never add up to more than totalNotes.
C17_Terminates ==
    gen.pc = "loop" =>
        gen.remaining + (gen.measureNumber - 1) <= gen.config.totalNotes

\* C18: the notes are split into ceil(totalNotes / notesPerMeasure) measures
\* numbered from 1, each of notesPerMeasure notes except a possibly shorter
\* last one; only measure 1 carries the attributes, with clef G on line 2 for
\* treble and F on line 4 for bass.
C18_Measures ==
    (/\ gen.pc = "done"
     /\ gen.config.totalNotes >= 1
     /\ gen.config.notesPerMeasure >= 1) =>
        LET size == gen.config.notesPerMeasure
            total == gen.config.totalNotes
            count == (total + size - 1) \div size
            first == [divisions |-> 4, fifths |-> 0, beats |-> 4, beatType |-> 4,
                      sign |-> IF gen.config.clef = "treble" THEN "G" ELSE "F",
                      line |-> IF gen.config.clef = "treble" THEN 2 ELSE 4]
        IN /\ Len(gen.measureXmls) = count
           /\ \A m \in 1..count :
                 LET measure == gen.measureXmls[m]
                 IN /\ measure.number = m
                    /\ Len(measure.notes) =
                          IF m < count THEN size ELSE total - size * (count - 1)
                    /\ Len(measure.notes) \in 1..size
                    /\ measure.attributes = IF m = 1 THEN <<first>> ELSE <<>>
                    /\ \A n \in DOMAIN measure.notes :
                          /\ (m - 1) * size + n \in DOMAIN gen.expectedNotes
                          /\ pitchToMidi(measure.notes[n]) =
                                gen.expectedNotes[(m - 1) * size + n]

C18_Witness ==
    /\ gen.pc = "done"
    /\ gen.config.clef = "bass"
    /\ Len(gen.measureXmls) = 2
    /\ Len(gen.measureXmls[2].notes) < gen.config.notesPerMeasure
    /\ gen.measureXmls[1].attributes # <<>>

\* C19: for a fixed range, totalNotes and seed, the expectedNotes returned are
\* the same for every notesPerMeasure >= 1.
C19_GroupingKeepsKeys ==
    (/\ Comparable
     /\ gen.config.minMidi = genRef.config.minMidi
     /\ gen.config.maxMidi = genRef.config.maxMidi
     /\ gen.config.clef = genRef.config.clef
     /\ gen.config.totalNotes = genRef.config.totalNotes
     /\ gen.config.seed = genRef.config.seed) =>
        gen.expectedNotes = genRef.expectedNotes

C19_Witness ==
    /\ Comparable
    /\ [gen.config EXCEPT !.notesPerMeasure = 0] =
          [genRef.config EXCEPT !.notesPerMeasure = 0]
    /\ gen.config.notesPerMeasure # genRef.config.notesPerMeasure
    /\ gen.measureXmls # genRef.xml
    /\ Len(gen.expectedNotes) >= 3

(* ---------------- events in flight across a reset ----------------------- *)

MaxQueue == 1
MaxEpoch == 1

\* the variables the deliveries leave alone
notStaleVars ==
    <<before, pendingArm, outcomes, score, resetPending, cursorFeedback,
      genVars, pitchVars, restVars>>

\* the device sends a press or a release; the message waits to be handled
StaleEmit ==
    \E kind \in {"press", "release"}, key \in Keys :
        /\ Len(inflight) < MaxQueue
        /\ inflight' = Append(inflight, [kind |-> kind, key |-> key, epoch |-> epoch])
        /\ UNCHANGED <<expectedNotes, cursor, armedNote, call, result, prev,
                       epoch, delivered, notStaleVars>>

\* the oldest waiting message is handled: onNoteOn / onNoteOff pass its key to
\* handleNoteOn / handleNoteOff, whatever score was current when it was sent
StaleDeliver ==
    /\ inflight # <<>>
    /\ IF Head(inflight).kind = "press"
       THEN NoteOn(Head(inflight).key)
       ELSE NoteOff(Head(inflight).key)
    /\ delivered' = Head(inflight)
    /\ inflight' = Tail(inflight)
    /\ UNCHANGED <<epoch, notStaleVars>>

\* the reset effect runs for a new score; waiting messages stay queued
StaleReset ==
    \E notes \in ScoreSeqs :
        /\ epoch < MaxEpoch
        /\ Reset(notes)
        /\ epoch' = epoch + 1
        /\ delivered' = NoEvent
        /\ UNCHANGED <<inflight, notStaleVars>>

NextStale == StaleEmit \/ StaleDeliver \/ StaleReset

SpecStale == Init /\ [][NextStale]_vars

\* C11: a press or release sent before a reset and handled after it is
\* ignored: the session is left as it was and the call reports neither
\* correct, wrong nor advanced.
C11_StaleEventIgnored ==
    (delivered.kind # "none" /\ delivered.epoch < epoch) =>
        /\ session = prev
        /\ result \notin {"correct", "wrong", "advanced"}

(* ------------------------ pitch to key number -------------------------- *)

\* octaves (-1)..MaxOctave hold the key numbers 0..127
MaxOctave == 9

\* the natural pitches: a step and an octave
Pitches == [step : {NOTE_NAMES[i] : i \in 1..Len(NOTE_NAMES)}, octave : (-1)..MaxOctave]

notConvVars ==
    <<hookVars, genVars, pitchVars, staleVars, midi, settings, storage,
      lateVars>>

\* the arguments are any two natural pitches
InitConv ==
    /\ HookIdle /\ GenIdle /\ PitchIdle /\ StaleIdle
    /\ MidiIdle /\ SettingsIdle /\ StorageIdle /\ LateIdle
    /\ conv \in [done : {FALSE}, pitches : Pitches \X Pitches, midi : {<<>>}]

\* pitchToMidi is called on each of the two pitches
CallPitchToMidi ==
    /\ ~conv.done
    /\ conv' = [conv EXCEPT !.done = TRUE,
                            !.midi = <<pitchToMidi(conv.pitches[1]),
                                       pitchToMidi(conv.pitches[2])>>]
    /\ UNCHANGED notConvVars

NextConv == CallPitchToMidi

SpecConv == InitConv /\ [][NextConv]_vars

\* C21: pitchToMidi is injective over the natural pitches: two pitches that
\* differ in step or in octave never get the same key number.
C21_PitchToMidiInjective ==
    (conv.done /\ conv.pitches[1] # conv.pitches[2]) => conv.midi[1] # conv.midi[2]

C21_Witness ==
    /\ conv.done
    /\ conv.pitches[1] = [step |-> "B", octave |-> 3]
    /\ conv.pitches[2] = [step |-> "C", octave |-> 4]
    /\ conv.midi = <<59, 60>>

(* ------------------------------ MIDI input ----------------------------- *)

NumMidiKeys == 2

\* the note numbers the device sends
MidiKeys == 60..(59 + NumMidiKeys)

COMMAND_MASK == 240
NOTE_ON == 144
NOTE_OFF == 128

\* status bytes: note off and note on of two channels, control change, clock
StatusBytes == {128, 138, 144, 154, 176, 248}

\* event.data: the three-byte messages and what is left of them when cut short
Messages ==
    LET full == {<<s, k, v>> : s \in StatusBytes, k \in MidiKeys, v \in {0, 64}}
    IN full \cup {SubSeq(m, 1, n) : m \in full, n \in 0..2}

\* bitwise and of two naturals
RECURSIVE And(_, _)
And(a, b) ==
    IF a = 0 \/ b = 0 THEN 0
    ELSE 2 * And(a \div 2, b \div 2) + (IF a % 2 = 1 /\ b % 2 = 1 THEN 1 ELSE 0)

AndDigit == [a \in 0..15 |-> [b \in 0..15 |-> And(a, b)]]

\* element i of event.data, undefined (null) past its end
Byte(data, i) == IF i \in DOMAIN data THEN data[i] ELSE null

\* the calls handleMessage makes on the callbacks
PressEvent(note, velocity) == [kind |-> "press", note |-> note, velocity |-> velocity]
ReleaseEvent(note) == [kind |-> "release", note |-> note, velocity |-> null]
AllReleasedEvent == [kind |-> "allReleased", note |-> null, velocity |-> null]

\* the part of handleMessage after the length check
Decode(data, heldNotes) ==
    LET statusByte == Byte(data, 1)
        note == Byte(data, 2)
        velocity == Byte(data, 3)
        command == IF statusByte = null THEN 0
                   ELSE Digitwise(AndDigit, statusByte, COMMAND_MASK)
    IN IF command = NOTE_OFF \/ (command = NOTE_ON /\ velocity = 0)
       THEN [heldNotes |-> heldNotes \ {note},
             emitted |-> IF heldNotes \ {note} = {}
                         THEN <<ReleaseEvent(note), AllReleasedEvent>>
                         ELSE <<ReleaseEvent(note)>>,
             threw |-> FALSE]
       ELSE IF command = NOTE_ON /\ note \notin heldNotes
       THEN [heldNotes |-> heldNotes \cup {note},
             emitted |-> <<PressEvent(note, velocity)>>,
             threw |-> FALSE]
       ELSE [heldNotes |-> heldNotes, emitted |-> <<>>, threw |-> FALSE]

\* handleMessage that decodes messages of any length
handleMessage_noLengthCheck(data, heldNotes) == Decode(data, heldNotes)

\* handleMessage that fires onNoteOn for every note-on message
handleMessage_repeatPress(data, heldNotes) ==
    IF Len(data) >= 3 /\ Digitwise(AndDigit, data[1], COMMAND_MASK) = NOTE_ON
       /\ data[3] # 0
    THEN [heldNotes |-> heldNotes \cup {data[2]},
          emitted |-> <<PressEvent(data[2], data[3])>>, threw |-> FALSE]
    ELSE IF Len(data) < 3
    THEN [heldNotes |-> heldNotes, emitted |-> <<>>, threw |-> FALSE]
    ELSE Decode(data, heldNotes)

\* handleMessage that leaves the held set alone on a release
handleMessage_keepHeld(data, heldNotes) ==
    IF Len(data) < 3
    THEN [heldNotes |-> heldNotes, emitted |-> <<>>, threw |-> FALSE]
    ELSE [Decode(data, heldNotes) EXCEPT
             !.heldNotes = IF @ \subseteq heldNotes THEN heldNotes ELSE @]

\* handleMessage(event): the held set it leaves and the callbacks it calls
handleMessage(data, heldNotes) ==
    IF Len(data) < 3
    THEN [heldNotes |-> heldNotes, emitted |-> <<>>, threw |-> FALSE]
    ELSE Decode(data, heldNotes)

notMidiVars ==
    <<hookVars, genVars, pitchVars, staleVars, conv, settings, storage,
      lateVars>>

InitMidi ==
    /\ HookIdle /\ GenIdle /\ PitchIdle /\ StaleIdle
    /\ ConvIdle /\ MidiIdle /\ SettingsIdle /\ StorageIdle /\ LateIdle

\* what the last step is remembered by, for a step that handles no message
NoMessage(m) ==
    [m EXCEPT !.via = "none", !.data = <<>>, !.heldBefore = m.heldNotes,
              !.emitted = <<>>, !.threw = FALSE]

\* the effect of useMidiInput runs: it asks for MIDI access, unless the
\* browser has no requestMIDIAccess
MidiMount ==
    \E supported \in BOOLEAN :
        /\ midi.pc \in {"idle", "unmounted"}
        /\ midi.pc = "unmounted" => supported = midi.supported
        /\ midi' = [NoMessage(midi) EXCEPT
                       !.pc = "mounted",
                       !.supported = supported,
                       !.access = IF supported THEN "pending" ELSE "none",
                       !.status = IF supported THEN @ ELSE "MIDI: not supported in this browser"]
        /\ UNCHANGED notMidiVars

\* the access request of the running effect is granted: handleMessage is
\* bound to every input
MidiAccessGranted ==
    \E hasInputs \in BOOLEAN :
        /\ midi.pc = "mounted"
        /\ midi.access = "pending"
        /\ midi' = [NoMessage(midi) EXCEPT
                       !.access = "granted",
                       !.bound = hasInputs,
                       !.status = IF hasInputs THEN "MIDI: connected"
                                  ELSE "MIDI: no device found"]
        /\ UNCHANGED notMidiVars

\* the access request of the running effect is denied
MidiAccessDenied ==
    /\ midi.pc = "mounted"
    /\ midi.access = "pending"
    /\ midi' = [NoMessage(midi) EXCEPT !.access = "denied",
                                       !.status = "MIDI: permission denied"]
    /\ UNCHANGED notMidiVars

\* the cleanup of the effect: it unbinds the inputs bound so far and clears
\* the held notes; a request still pending stays pending
MidiTeardown ==
    /\ midi.pc = "mounted"
    /\ midi' = IF midi.supported
               THEN [NoMessage(midi) EXCEPT
                        !.pc = "unmounted",
                        !.bound = FALSE,
                        !.heldNotes = {},
                        !.heldBefore = midi.heldNotes,
                        !.access = "none",
                        !.stalePending = @ \/ midi.access = "pending",
                        !.pressed = {}]
               ELSE [NoMessage(midi) EXCEPT !.pc = "unmounted"]
    /\ UNCHANGED notMidiVars

\* the access request of an effect that was cleaned up is granted: the
\* handleMessage of that effect is bound to every input
MidiStaleGranted ==
    \E hasInputs \in BOOLEAN :
        /\ midi.stalePending
        /\ midi' = [NoMessage(midi) EXCEPT
                       !.stalePending = FALSE,
                       !.staleBound = @ \/ hasInputs,
                       !.status = IF hasInputs THEN "MIDI: connected"
                                  ELSE "MIDI: no device found"]
        /\ UNCHANGED notMidiVars

\* the access request of an effect that was cleaned up is denied
MidiStaleDenied ==
    /\ midi.stalePending
    /\ midi' = [NoMessage(midi) EXCEPT !.stalePending = FALSE,
                                       !.status = "MIDI: permission denied"]
    /\ UNCHANGED notMidiVars

\* the keys with a press event and no release event since
Pressed(pressed, emitted) ==
    (pressed \cup {emitted[i].note : i \in {j \in DOMAIN emitted : emitted[j].kind = "press"}})
        \ {emitted[i].note : i \in {j \in DOMAIN emitted : emitted[j].kind = "release"}}

\* a device message reaches a bound handleMessage, of the running effect
\* ("live") or of one that was cleaned up ("stale")
MidiMessage ==
    \E via \in {"live", "stale"}, data \in Messages :
        /\ via = "live" => midi.bound
        /\ via = "stale" => midi.staleBound
        /\ LET handled == handleMessage(data, midi.heldNotes)
           IN midi' = [midi EXCEPT
                          !.via = via,
                          !.data = data,
                          !.heldBefore = midi.heldNotes,
                          !.heldNotes = handled.heldNotes,
                          !.emitted = handled.emitted,
                          !.threw = handled.threw,
                          !.pressed = Pressed(@, handled.emitted),
                          !.repeated = @ \/ \E i \in DOMAIN handled.emitted :
                                          /\ handled.emitted[i].kind = "press"
                                          /\ handled.emitted[i].note \in midi.pressed]
        /\ UNCHANGED notMidiVars

NextMidi ==
    \/ MidiMount \/ MidiAccessGranted \/ MidiAccessDenied \/ MidiTeardown
    \/ MidiStaleGranted \/ MidiStaleDenied \/ MidiMessage

SpecMidi == InitMidi /\ [][NextMidi]_vars

\* the last step handled a message of at least three bytes
Decoded == midi.via # "none" /\ Len(midi.data) >= 3

\* the command nibble of the last message
Nibble == midi.data[1] \div 16

\* some callback call of the last step is of this kind
Emitted(kind) == \E i \in DOMAIN midi.emitted : midi.emitted[i].kind = kind

\* C22: a release-class message (command 0x80, or 0x90 with velocity 0) for
\* key k, on any channel and whether or not k is held, removes k from the
\* held set and emits release(k), followed by allReleased if the held set is
\* then empty.
C22_ReleaseMessage ==
    (Decoded /\ (Nibble = 8 \/ (Nibble = 9 /\ midi.data[3] = 0))) =>
        /\ midi.heldNotes = midi.heldBefore \ {midi.data[2]}
        /\ midi.emitted =
              IF midi.heldNotes = {}
              THEN <<ReleaseEvent(midi.data[2]), AllReleasedEvent>>
              ELSE <<ReleaseEvent(midi.data[2])>>

C22_Witness ==
    /\ midi.via # "none"
    /\ midi.data = <<154, 60, 0>>
    /\ midi.heldBefore = {60}
    /\ midi.emitted = <<ReleaseEvent(60), AllReleasedEvent>>

C24_AllReleasedOnTransition ==
    midi.via # "none" =>
        (Emitted("allReleased") <=> (midi.heldBefore # {} /\ midi.heldNotes = {}))

\* C25: a message shorter than 3 bytes, or whose command nibble is neither
\* 0x9 nor 0x8, emits no event, raises no error and leaves the held set
\* unchanged.
C25_NoiseDropped ==
    (midi.via # "none" /\ (Len(midi.data) < 3 \/ Nibble \notin {8, 9})) =>
        /\ midi.emitted = <<>>
        /\ ~midi.threw
        /\ midi.heldNotes = midi.heldBefore

C25_Witness ==
    /\ midi.via # "none"
    /\ midi.data = <<128>>
    /\ midi.heldBefore # {}
    /\ midi.emitted = <<>>

\* C26: after the cleanup, whether it ran before or after the access request
\* completed, the held set is empty, no event is emitted for a later message
\* through the subscription that was cleaned up, and the cleanup itself emits
\* no release.
C26_TeardownSilences ==
    /\ midi.pc = "unmounted" => midi.heldNotes = {} /\ ~Emitted("release")
    /\ midi.via = "stale" => midi.emitted = <<>>

(* --------------------------- storage functions ------------------------- *)

\* how the browser's database behaves during one page load: it works, there
\* is no indexedDB, open throws, the open request fails or is blocked, the
\* transaction cannot be created, or every request on a store fails
StorageModes ==
    {"ok", "unsupported", "openThrows", "openError", "blocked",
     "transactionThrows", "requestError"}

\* a failed open request rejects the promise
openDb_rejectOnError(mode) ==
    IF mode = "unsupported" THEN "null"
    ELSE IF mode = "openError" THEN "rejected"
    ELSE IF mode \in {"openThrows", "blocked"} THEN "null"
    ELSE "db"

\* what the promise of openDb settles to
openDb(mode) ==
    IF mode = "unsupported" THEN "null"
    ELSE IF mode \in {"openThrows", "openError", "blocked"} THEN "null"
    ELSE "db"

\* withStore: "null" without a database or a transaction, "action" when the
\* action runs on the store, "rejected" when the promise of openDb rejects
withStore(mode) ==
    LET db == openDb(mode)
    IN  IF db = "rejected" THEN "rejected"
        ELSE IF db = "null" THEN "null"
        ELSE IF mode = "transactionThrows" THEN "null"
        ELSE "action"

\* the request of the action succeeds
RequestSucceeds(mode) == withStore(mode) = "action" /\ mode # "requestError"

\* Number.NaN and Number.isFinite over the numbers of the model
NaN == -1000000
isFinite(value) == value \in Int /\ value # NaN

isThemeMode(value) == value \in {"light", "dark", "system"}

\* the fields of a settings record the theme, the range and the note count
\* come from
isPersistedSettings(value) ==
    /\ isThemeMode(value.themeMode)
    /\ value.minNote \in STRING
    /\ value.maxNote \in STRING
    /\ isFinite(value.totalNotes)

isPersistedSessionRun(value) ==
    /\ value.config.minNote \in STRING
    /\ value.config.maxNote \in STRING
    /\ isFinite(value.config.totalNotes)

\* loadSettings on the settings store: the record, or null (the empty set)
loadSettings(mode, store) ==
    LET found == IF RequestSucceeds(mode) THEN store ELSE {}
    IN  [raised |-> withStore(mode) = "rejected",
         value |-> {r \in found : isPersistedSettings(r)}]

\* saveSettings puts the record under the one settings key
saveSettings(mode, store, value) ==
    [raised |-> withStore(mode) = "rejected",
     store |-> IF RequestSucceeds(mode) THEN {value} ELSE store]

\* listSessionRuns: the valid records of the session-run store (the order by
\* createdAt is left out: the model keeps the list as a set)
listSessionRuns(mode, store) ==
    LET found == IF RequestSucceeds(mode) THEN store ELSE {}
    IN  [raised |-> withStore(mode) = "rejected",
         value |-> {r \in found : isPersistedSessionRun(r)}]

\* the store is keyed by the session label
addSessionRun_keyedBySessionId(mode, store, run) ==
    [raised |-> withStore(mode) = "rejected",
     store |-> IF RequestSucceeds(mode)
               THEN {r \in store : r.sessionId # run.sessionId} \cup {run}
               ELSE store]

\* addSessionRun: store.put(run) on a store whose key path is id
addSessionRun(mode, store, run) ==
    [raised |-> withStore(mode) = "rejected",
     store |-> IF RequestSucceeds(mode)
               THEN {r \in store : r.id # run.id} \cup {run}
               ELSE store]

(* ------------------------- settings of the App ------------------------- *)

\* page loads, edits on the setup page and sessions finished
MaxMounts == 2
MaxEdits == 2
MaxRuns == 2

\* crypto.randomUUID: an identifier it has not returned before (identifiers
\* are numbered in the order they are returned)
randomUUID(issued) == Cardinality(issued) + 1

MathMax(a, b) == IF a = NaN \/ b = NaN THEN NaN ELSE IF a >= b THEN a ELSE b
MathMin(a, b) == IF a = NaN \/ b = NaN THEN NaN ELSE IF a <= b THEN a ELSE b

\* clamp of shared/utils
clamp(value, min, max) == MathMin(MathMax(value, min), max)

\* the lower limit is not applied
clampNoteCount_noMin(value) == MathMin(value, MAX_TOTAL_NOTES)

clampNoteCount(value) == clamp(value, MIN_TOTAL_NOTES, MAX_TOTAL_NOTES)

\* NOTE_NAMES.indexOf(name)
indexOf(name) ==
    IF \E i \in 1..Len(ScoreNoteNames) : ScoreNoteNames[i] = name
    THEN (CHOOSE i \in 1..Len(ScoreNoteNames) : ScoreNoteNames[i] = name) - 1
    ELSE -1

\* NOTE_NAMES[index]
NoteAt(index) ==
    IF index \in 0..(Len(ScoreNoteNames) - 1)
    THEN ScoreNoteNames[index + 1]
    ELSE "undefined"

\* NOTE_NAMES.length - 1
maxNoteIndex == Len(ScoreNoteNames) - 1

\* the lower bound is clamped to the keyboard, not to the upper bound
updateMinNoteByStep_noMaxBound(current, delta, maxNote) ==
    NoteAt(clamp(indexOf(current) + delta, 0, maxNoteIndex))

\* the updater of updateMinNoteByStep; maxNote is the one of the render the
\* handler was created in
updateMinNoteByStep(current, delta, maxNote) ==
    NoteAt(clamp(indexOf(current) + delta, 0, indexOf(maxNote)))

updateMaxNoteByStep(current, delta, minNote) ==
    NoteAt(clamp(indexOf(current) + delta, indexOf(minNote), maxNoteIndex))

\* what the user can type into the note-count field
TypedCounts == {NaN, 0, MAX_TOTAL_NOTES + 1}

onNoteCountInput(value) ==
    IF value = NaN THEN DEFAULT_TOTAL_NOTES ELSE clampNoteCount(value)

\* the range and the note count of App state s: what a settings record and
\* the config of a session run hold of it (theme, device and timestamps are
\* left out)
ConfigOf(s) ==
    [minNote |-> s.minNote, maxNote |-> s.maxNote, totalNotes |-> s.totalNotes]

\* the settings record the save-settings effect hands to saveSettings for
\* App state s (device and timestamp are left out)
SettingsOf(s) ==
    [themeMode |-> s.themeMode, minNote |-> s.minNote, maxNote |-> s.maxNote,
     totalNotes |-> s.totalNotes]

\* sessionId of finishSession
SessionLabel(seed) == <<"#88K-", seed>>

\* the storage at the start of a step: no call made yet
Fresh ==
    [storage EXCEPT !.calls = {}, !.raised = FALSE, !.loaded = {},
                    !.listed = {}, !.runsBefore = storage.sessionRuns]

\* the effect saves whether or not the storage is hydrated
SaveSettingsEffect_unguarded(old, new, st) ==
    IF /\ new.mounted
       /\ (SettingsOf(old) # SettingsOf(new) \/ ~old.mounted)
    THEN LET saved == saveSettings(st.mode, st.settings, SettingsOf(new))
         IN  [st EXCEPT !.settings = saved.store,
                        !.calls = @ \cup {"saveSettings"},
                        !.raised = @ \/ saved.raised]
    ELSE st

\* the save-settings effect of the render that takes the App from old to
\* new
SaveSettingsEffect(old, new, st) ==
    IF /\ new.mounted
       /\ new.isStorageHydrated
       /\ (SettingsOf(old) # SettingsOf(new) \/ ~old.isStorageHydrated)
    THEN LET saved == saveSettings(st.mode, st.settings, SettingsOf(new))
         IN  [st EXCEPT !.settings = saved.store,
                        !.calls = @ \cup {"saveSettings"},
                        !.raised = @ \/ saved.raised]
    ELSE st

\* a handler leaves the App in state new and the storage in st; the render
\* and its effects follow
Commit(new, st) ==
    /\ settings' =
           [new EXCEPT !.changed = SettingsOf(new) # SettingsOf(settings)]
    /\ storage' = SaveSettingsEffect(settings, new, st)

notPersistVars ==
    <<hookVars, genVars, pitchVars, staleVars, conv, midi, lateVars>>

InitPersist == Init

\* the page is loaded: the App is constructed and the hydration effect
\* starts the two reads
MountIn(mode) ==
    /\ ~settings.mounted
    /\ settings.mounts < MaxMounts
    /\ Commit([NoSettings EXCEPT !.mounted = TRUE,
                                 !.hydration = "pending",
                                 !.mounts = settings.mounts + 1,
                                 !.edits = settings.edits,
                                 !.last = "mount"],
              [Fresh EXCEPT !.mode = mode])
    /\ UNCHANGED notPersistVars

\* a page load with the database working
SettingsMount == MountIn("ok")

\* a page load, whatever the database does
PersistMount == \E mode \in StorageModes : MountIn(mode)

\* the page is left: the cleanup of the hydration effect clears mounted, a
\* pending hydration then changes nothing
PersistUnmount ==
    /\ settings.mounted
    /\ Commit([NoSettings EXCEPT !.mounts = settings.mounts,
                                 !.edits = settings.edits,
                                 !.last = "unmount"],
              Fresh)
    /\ UNCHANGED notPersistVars

\* Promise.all of the two reads settles: then and finally of the hydration
\* effect
HydrationSettle ==
    /\ settings.mounted
    /\ settings.hydration = "pending"
    /\ LET loaded == loadSettings(storage.mode, storage.settings)
           listed == listSessionRuns(storage.mode, storage.sessionRuns)
           raised == loaded.raised \/ listed.raised
           stored == CHOOSE r \in loaded.value : TRUE
           withSettings ==
               IF loaded.value = {} THEN settings
               ELSE [settings EXCEPT
                        !.themeMode = stored.themeMode,
                        !.minNote = stored.minNote,
                        !.maxNote = stored.maxNote,
                        !.totalNotes = clampNoteCount(stored.totalNotes)]
           afterThen ==
               IF raised THEN settings
               ELSE [withSettings EXCEPT !.sessionRuns = listed.value]
       IN  Commit([afterThen EXCEPT !.hydration = "settled",
                                    !.isStorageHydrated = TRUE,
                                    !.last = "hydrate"],
                  [Fresh EXCEPT !.calls = {"loadSettings", "listSessionRuns"},
                                !.raised = raised,
                                !.loaded = loaded.value,
                                !.listed = listed.value])
    /\ UNCHANGED notPersistVars

\* an edit on the setup page
CanEdit ==
    /\ settings.mounted
    /\ ~settings.practising
    /\ settings.edits < MaxEdits

Edited(last) == [settings EXCEPT !.edits = @ + 1, !.last = last]

StepMinNote ==
    \E delta \in {-1, 1} :
        /\ CanEdit
        /\ Commit([Edited(IF delta = 1 THEN "increaseMin" ELSE "decreaseMin") EXCEPT
                      !.minNote = updateMinNoteByStep(settings.minNote, delta,
                                                      settings.maxNote)],
                  Fresh)
        /\ UNCHANGED notPersistVars

StepMaxNote ==
    \E delta \in {-1, 1} :
        /\ CanEdit
        /\ Commit([Edited(IF delta = 1 THEN "increaseMax" ELSE "decreaseMax") EXCEPT
                      !.maxNote = updateMaxNoteByStep(settings.maxNote, delta,
                                                      settings.minNote)],
                  Fresh)
        /\ UNCHANGED notPersistVars

DecreaseNotes ==
    /\ CanEdit
    /\ Commit([Edited("decrease") EXCEPT
                  !.totalNotes = clampNoteCount(settings.totalNotes - 1)],
              Fresh)
    /\ UNCHANGED notPersistVars

IncreaseNotes ==
    /\ CanEdit
    /\ Commit([Edited("increase") EXCEPT
                  !.totalNotes = clampNoteCount(settings.totalNotes + 1)],
              Fresh)
    /\ UNCHANGED notPersistVars

NoteCountInput ==
    \E value \in TypedCounts :
        /\ CanEdit
        /\ Commit([Edited("input") EXCEPT
                      !.totalNotes = onNoteCountInput(value)],
                  Fresh)
        /\ UNCHANGED notPersistVars

\* onThemeModeChange of the settings page
ThemeModeChange ==
    \E mode \in {"light", "dark", "system"} :
        /\ CanEdit
        /\ Commit([Edited("theme") EXCEPT !.themeMode = mode], Fresh)
        /\ UNCHANGED notPersistVars

\* loadPreviousSession with the id of a run of the list (any other id
\* returns early)
LoadPreviousSession ==
    \E selectedSession \in settings.sessionRuns :
        /\ CanEdit
        /\ Commit([Edited("loadPrevious") EXCEPT
                      !.minNote = selectedSession.config.minNote,
                      !.maxNote = selectedSession.config.maxNote,
                      !.totalNotes =
                          clampNoteCount(selectedSession.config.totalNotes)],
                  Fresh)
        /\ UNCHANGED notPersistVars

StartSession ==
    /\ settings.mounted
    /\ ~settings.practising
    /\ Cardinality(storage.issued) < MaxRuns
    /\ Commit([settings EXCEPT !.seed = @ + 1, !.practising = TRUE,
                               !.last = "start"],
              Fresh)
    /\ UNCHANGED notPersistVars

\* finishSession: the run gets an identifier crypto.randomUUID has not
\* returned before, is put in front of the list and handed to addSessionRun
FinishSession ==
    /\ settings.mounted
    /\ settings.practising
    /\ LET sessionRun == [id |-> randomUUID(storage.issued),
                          sessionId |-> SessionLabel(settings.seed),
                          config |-> ConfigOf(settings)]
           added == addSessionRun(storage.mode, storage.sessionRuns,
                                  sessionRun)
       IN  Commit([settings EXCEPT !.sessionRuns = @ \cup {sessionRun},
                                   !.practising = FALSE,
                                   !.last = "finish"],
                  [Fresh EXCEPT !.sessionRuns = added.store,
                                !.issued = @ \cup {sessionRun.id},
                                !.calls = {"addSessionRun"},
                                !.raised = added.raised])
    /\ UNCHANGED notPersistVars

\* the App over a database that works
NextSettings ==
    \/ SettingsMount \/ PersistUnmount \/ HydrationSettle
    \/ StepMinNote \/ StepMaxNote
    \/ DecreaseNotes \/ IncreaseNotes \/ NoteCountInput
    \/ LoadPreviousSession \/ StartSession \/ FinishSession

SpecSettings == InitPersist /\ [][NextSettings]_vars

\* the App over a database that may be unavailable; the user edits only the
\* note count and the theme
NextPersist ==
    \/ PersistMount \/ PersistUnmount \/ HydrationSettle
    \/ IncreaseNotes \/ ThemeModeChange
    \/ LoadPreviousSession \/ StartSession \/ FinishSession

SpecPersist == InitPersist /\ [][NextPersist]_vars

(* ------------------------------ claim C27 ----------------------------- *)

\* C27: after any sequence of range edits (a step of the lower or the upper
\* bound up or down, loading the stored settings, loading a previous
\* session) the lower bound of the range is a note of the keyboard that is
\* not above the upper bound.
C27_RangeOrdered ==
    /\ 0 <= indexOf(settings.minNote)
    /\ indexOf(settings.minNote) <= indexOf(settings.maxNote)

\* the lower bound was stepped up while it was equal to the upper bound and
\* stayed where it was
C27_Witness ==
    /\ settings.last = "increaseMin"
    /\ ~settings.changed
    /\ settings.minNote = settings.maxNote
    /\ settings.maxNote # DEFAULT_MAX_NOTE

(* ------------------------------ claim C28 ----------------------------- *)

\* C28: after any sequence of note-count edits (increment, decrement, typed
\* input, loading the stored settings or a previous session) the note count
\* lies in [4, 200].
C28_NoteCountInRange ==
    settings.totalNotes \in MIN_TOTAL_NOTES..MAX_TOTAL_NOTES

\* a typed count above the maximum was clamped to it
C28_Witness ==
    /\ settings.last = "input"
    /\ settings.changed
    /\ settings.totalNotes = MAX_TOTAL_NOTES

(* ------------------------------ claim C29 ----------------------------- *)

\* C29: while the database is unavailable (not supported, open fails or is
\* blocked, a transaction or a request fails) no storage function raises,
\* loadSettings returns null and listSessionRuns the empty list, the App is
\* hydrated once the two reads have settled, and hydration leaves the range
\* and the note count, which score generation and the session take, as they
\* were.
C29_StorageUnavailable ==
    storage.mode # "ok" =>
        /\ ~storage.raised
        /\ "loadSettings" \in storage.calls => storage.loaded = {}
        /\ "listSessionRuns" \in storage.calls => storage.listed = {}
        /\ settings.hydration = "settled" => settings.isStorageHydrated
        /\ settings.last = "hydrate" => ~settings.changed

\* the database holds settings of an earlier page load, the open request of
\* this page load is blocked, and hydration has read and then saved
C29_Witness ==
    /\ storage.mode = "blocked"
    /\ storage.settings # {}
    /\ storage.calls = {"loadSettings", "listSessionRuns", "saveSettings"}
    /\ settings.isStorageHydrated

(* ------------------------------ claim C30 ----------------------------- *)

\* C30: the session-run store is append-only: no step changes or removes a
\* record that is stored, and a call of addSessionRun adds at most one
\* record, exactly one when the database works.
C30_AppendOnly ==
    /\ storage.runsBefore \subseteq storage.sessionRuns
    /\ "addSessionRun" \in storage.calls =>
           Cardinality(storage.sessionRuns \ storage.runsBefore)
               = IF storage.mode = "ok" THEN 1 ELSE 0

\* a second run with the session label of a stored run was added
C30_Witness ==
    /\ "addSessionRun" \in storage.calls
    /\ storage.runsBefore # {}
    /\ Cardinality(storage.sessionRuns) = 2
    /\ Cardinality({r.sessionId : r \in storage.sessionRuns}) = 1

(* -------------------------- claims C31 and C32 ------------------------- *)

\* C31: in every reachable session state a note is armed only if the cursor
\* is before the end of the expected notes and the armed note is the expected
\* note at the cursor; armed with the cursor at the end is never reached.
C31_ArmedAtCursor ==
    armedNote # null =>
        /\ cursor < Len(expectedNotes)
        /\ armedNote = expectedNotes[cursor + 1]

\* the last expected note of a sequence of several notes has just been armed
C31_Witness ==
    /\ call.op = "noteOn"
    /\ result = "correct"
    /\ prev.armedNote = null
    /\ armedNote # null
    /\ cursor > 0
    /\ cursor = Len(expectedNotes) - 1

\* C32: after any sequence of reset, handleNoteOn and handleNoteOff calls the
\* cursor lies in 0..expectedNotes.length.
C32_CursorInBounds ==
    /\ 0 <= cursor
    /\ cursor <= Len(expectedNotes)

\* the release of the last note has taken the cursor to the end
C32_Witness ==
    /\ call.op = "noteOff"
    /\ result = "complete"
    /\ cursor = prev.cursor + 1
    /\ cursor = Len(expectedNotes)
    /\ cursor > 1

(* ------------------------- asynchronous staff -------------------------- *)

\* scores the Staff is asked to render
MaxRenders == 3

\* scoreData.expected of the scores requested: one note each
StaffScores == {s \in ScoreSeqs : Len(s) = 1}

notStaffVars ==
    <<hookVars, genVars, pitchVars, staleVars, conv, midi, settings, storage,
      rngDraw, practice, trainings>>

\* handleExpectedChange(expected): the value expectedRef takes
handleExpectedChange(expected) == expected

\* the props change: scoreData is rebuilt and the effect calls renderScore,
\* which starts osmd.load and waits for it
StaffRender ==
    \E expected \in StaffScores :
        /\ Len(staff.requested) < MaxRenders
        /\ staff' = [staff EXCEPT
                        !.requested = Append(@, expected),
                        !.pending = @ \cup {Len(staff.requested) + 1}]
        /\ UNCHANGED notStaffVars

\* the load of one of the pending renders resolves: renderScore goes on after
\* its await and hands the expected notes of its own scoreData to
\* onExpectedChange
StaffLoaded ==
    \E i \in staff.pending :
        /\ staff' = [staff EXCEPT
                        !.pending = @ \ {i},
                        !.expectedRef =
                            handleExpectedChange(staff.requested[i])]
        /\ UNCHANGED notStaffVars

NextStaff == StaffRender \/ StaffLoaded

SpecStaff == Init /\ [][NextStaff]_vars

\* C33: once every pending render has finished, the expected sequence in
\* force is that of the score requested last; a render of an earlier score
\* that finishes late does not replace it.
C33_LatestScoreInForce ==
    (staff.pending = {} /\ staff.requested # <<>>) =>
        staff.expectedRef = staff.requested[Len(staff.requested)]

(* ------------------------- draws of the generator ---------------------- *)

\* seeds, draws per generator and pool sizes explored
MaxDrawSeed == 7
MaxDraws == 4
MaxPool == 3

notDrawVars ==
    <<hookVars, genVars, pitchVars, staleVars, conv, midi, settings, storage,
      staff, practice, trainings>>

\* createRng(seed) has been called with any of the seeds
InitDraw ==
    /\ HookIdle /\ GenIdle /\ PitchIdle /\ StaleIdle
    /\ ConvIdle /\ MidiIdle /\ SettingsIdle /\ StorageIdle
    /\ staff = NoStaff /\ practice = NoPractice /\ trainings = NoTrainings
    /\ rngDraw \in {[NoDraw EXCEPT !.state = createRng(seed)] :
                       seed \in 0..MaxDrawSeed}

\* pick(items, rng) on a pool of any size: one draw, scaled to an index
DrawPick ==
    \E length \in 1..MaxPool :
        /\ rngDraw.draws < MaxDraws
        /\ LET r == rngNext(rngDraw.state)
           IN  rngDraw' = [state |-> r.state, out |-> r.out,
                           length |-> length,
                           index |-> pickIndex(r.out, length),
                           draws |-> rngDraw.draws + 1]
        /\ UNCHANGED notDrawVars

NextDraw == DrawPick

SpecDraw == InitDraw /\ [][NextDraw]_vars

\* C34: every draw is a 32-bit unsigned value over 2^32, so it lies in
\* [0, 1), and the index floor(draw * pool.length) lies in
\* 0..pool.length - 1 for a non-empty pool.
C34_DrawAndIndexInRange ==
    rngDraw.draws > 0 =>
        /\ rngDraw.out[1] \in 0..(Half - 1)
        /\ rngDraw.out[2] \in 0..(Half - 1)
        /\ rngDraw.index \in 0..(rngDraw.length - 1)

\* a draw of at least one half picked the last element of a pool of several
C34_Witness ==
    /\ rngDraw.draws > 0
    /\ rngDraw.out[1] >= Half \div 2
    /\ rngDraw.length > 1
    /\ rngDraw.index = rngDraw.length - 1

(* ------------------------------ claim C38 ----------------------------- *)

MaxStarts == 2
MaxAttempts == 3
\* notes of a practised score
MaxNotes == 2

\* the expected notes of the scores practised
PracticeScores == {s \in ScoreSeqs : Len(s) <= MaxNotes}

notPracticeVars ==
    <<hookVars, genVars, pitchVars, staleVars, conv, midi, settings, storage,
      staff, rngDraw, trainings>>

\* accuracy: Math.round((correctAttempts / attempts) * 100) of the values v,
\* 100 without attempts
accuracy(v) ==
    IF v.attempts = 0 THEN 100
    ELSE (200 * v.correctAttempts + v.attempts) \div (2 * v.attempts)

\* attempts counts the wrong presses only
onNoteOn_countWrongOnly(note, p) ==
    IF p.shown.page # "practice"
    THEN [p EXCEPT !.last = <<"press", "ignored">>]
    ELSE LET r == handleNoteOn(note, p.session) IN
         IF r.result = "complete"
         THEN [p EXCEPT !.session = r.state, !.last = <<"press", r.result>>]
         ELSE [p EXCEPT !.session = r.state,
                        !.attempts = IF r.result = "wrong" THEN @ + 1 ELSE @,
                        !.correctAttempts =
                            IF r.result = "correct" THEN @ + 1 ELSE @,
                        !.last = <<"press", r.result>>]

\* onNoteOn(note) in App state p: the state the handler leaves; page is the
\* page of the render that created the callback
onNoteOn(note, p) ==
    IF p.shown.page # "practice"
    THEN [p EXCEPT !.last = <<"press", "ignored">>]
    ELSE LET r == handleNoteOn(note, p.session) IN
         IF r.result = "complete"
         THEN [p EXCEPT !.session = r.state, !.last = <<"press", r.result>>]
         ELSE [p EXCEPT !.session = r.state,
                        !.attempts = @ + 1,
                        !.correctAttempts =
                            IF r.result = "correct" THEN @ + 1 ELSE @,
                        !.last = <<"press", r.result>>]

\* the release that completes the session is not counted
onNoteOff_skipLast(note, p) ==
    IF p.shown.page # "practice"
    THEN [p EXCEPT !.last = <<"release", "ignored">>]
    ELSE LET r == handleNoteOff(note, p.session) IN
         IF r.result \notin {"advanced", "complete"}
         THEN [p EXCEPT !.session = r.state, !.last = <<"release", r.result>>]
         ELSE [p EXCEPT !.session = r.state,
                        !.completedNotes =
                            IF r.result = "complete" THEN @
                            ELSE MathMin(p.totalNotes, @ + 1),
                        !.autoFinishToken =
                            IF r.result = "complete" THEN @ + 1 ELSE @,
                        !.completions =
                            IF r.result = "complete" THEN @ + 1 ELSE @,
                        !.last = <<"release", r.result>>]

\* onNoteOff(note) in App state p: the state the handler leaves
onNoteOff(note, p) ==
    IF p.shown.page # "practice"
    THEN [p EXCEPT !.last = <<"release", "ignored">>]
    ELSE LET r == handleNoteOff(note, p.session) IN
         IF r.result \notin {"advanced", "complete"}
         THEN [p EXCEPT !.session = r.state, !.last = <<"release", r.result>>]
         ELSE [p EXCEPT !.session = r.state,
                        !.completedNotes = MathMin(p.totalNotes, @ + 1),
                        !.autoFinishToken =
                            IF r.result = "complete" THEN @ + 1 ELSE @,
                        !.completions =
                            IF r.result = "complete" THEN @ + 1 ELSE @,
                        !.last = <<"release", r.result>>]

\* the state updates of finishSession: a session run is created and handed to
\* addSessionRun, and the App navigates to the results page
finishSession(p) == [p EXCEPT !.created = @ + 1, !.page = "results"]

\* retrySession: the seed is advanced, so that the score of the next render
\* is a new one with these expected notes, and the App navigates to practice
retrySession(p, notes) ==
    [p EXCEPT !.seed = @ + 1,
              !.page = "practice",
              !.score = notes,
              !.totalNotes = Len(notes),
              !.scoreDue = TRUE]

\* startSession: as retrySession, after the auto-finish token is cleared
startSession(p, notes) ==
    [p EXCEPT !.autoFinishToken = 0,
              !.seed = @ + 1,
              !.page = "practice",
              !.score = notes,
              !.totalNotes = Len(notes),
              !.scoreDue = TRUE]

\* the state updates of the reset effect for the score of p
resetEffect(p) ==
    [p EXCEPT !.session = reset(p.score),
              !.completedNotes = 0,
              !.attempts = 0,
              !.correctAttempts = 0,
              !.autoFinishToken = 0]

\* the values of p a render shows
Rendered(p) ==
    [page |-> p.page, seed |-> p.seed, completedNotes |-> p.completedNotes,
     attempts |-> p.attempts, correctAttempts |-> p.correctAttempts,
     autoFinishToken |-> p.autoFinishToken]

\* the auto-finish effect runs after a render that shows new where the one
\* before showed old: one of its dependencies has changed
AutoFinishRuns(old, new) ==
    \/ new.autoFinishToken # old.autoFinishToken
    \/ new.page # old.page
    \/ new.seed # old.seed
    \/ new.completedNotes # old.completedNotes
    \/ accuracy(new) # accuracy(old)

\* the auto-finish effect of a render that shows new
AutoFinishes(old, new) ==
    /\ AutoFinishRuns(old, new)
    /\ new.page = "practice"
    /\ new.autoFinishToken # 0

\* the render of state p and its effects, in the order the App declares
\* them: the reset effect when the score is a new one, then the auto-finish
\* effect, which reads page and autoFinishToken of that render; the updates
\* of both are applied after the effects have run
AfterEffects(p) ==
    LET afterReset == IF p.scoreDue THEN resetEffect(p) ELSE p
        after == IF AutoFinishes(p.shown, Rendered(p))
                 THEN finishSession(afterReset) ELSE afterReset
    IN  [after EXCEPT !.shown = Rendered(p), !.scoreDue = FALSE]

\* a render is due
Dirty(p) == p.scoreDue \/ Rendered(p) # p.shown

\* a step has left the App in state new
PracticeCommit(new) ==
    practice' =
        [new EXCEPT
            !.was = [completedNotes |-> practice.completedNotes,
                     attempts |-> practice.attempts,
                     correctAttempts |-> practice.correctAttempts]]

\* the first render of the App and its effects: the score is generated and
\* the reset effect runs
InitPractice ==
    /\ HookIdle /\ GenIdle /\ PitchIdle /\ StaleIdle
    /\ ConvIdle /\ MidiIdle /\ SettingsIdle /\ StorageIdle
    /\ staff = NoStaff /\ rngDraw = NoDraw /\ trainings = NoTrainings
    /\ \E notes \in PracticeScores :
           practice = resetEffect([NoPractice EXCEPT
                                      !.score = notes,
                                      !.totalNotes = Len(notes)])

\* React renders the App and runs the effects of the render
PracticeRender ==
    /\ Dirty(practice)
    /\ PracticeCommit([AfterEffects(practice) EXCEPT
                          !.last = <<"render", "none">>])
    /\ UNCHANGED notPracticeVars

\* the start button of the setup page
PracticeStart ==
    \E notes \in PracticeScores :
        /\ ~Dirty(practice)
        /\ practice.page = "setup"
        /\ practice.starts < MaxStarts
        /\ PracticeCommit([startSession(practice, notes) EXCEPT
                              !.starts = @ + 1,
                              !.last = <<"start", "none">>])
        /\ UNCHANGED notPracticeVars

\* the try-again button of the results page
PracticeRetry ==
    \E notes \in PracticeScores :
        /\ ~Dirty(practice)
        /\ practice.page = "results"
        /\ practice.starts < MaxStarts
        /\ PracticeCommit([retrySession(practice, notes) EXCEPT
                              !.starts = @ + 1,
                              !.last = <<"retry", "none">>])
        /\ UNCHANGED notPracticeVars

\* newSetupFromResults on the results page
PracticeNewSetup ==
    /\ ~Dirty(practice)
    /\ practice.page = "results"
    /\ PracticeCommit([practice EXCEPT !.page = "setup",
                                       !.last = <<"setup", "none">>])
    /\ UNCHANGED notPracticeVars

\* the finish button of the practice page
PracticeFinish ==
    /\ ~Dirty(practice)
    /\ practice.page = "practice"
    /\ PracticeCommit([finishSession(practice) EXCEPT
                          !.manual = @ + 1,
                          !.last = <<"finish", "none">>])
    /\ UNCHANGED notPracticeVars

\* the device reports a press, on any page and before or after a render
PracticePress ==
    \E k \in Keys :
        /\ practice.attempts < MaxAttempts
        /\ PracticeCommit(onNoteOn(k, practice))
        /\ UNCHANGED notPracticeVars

\* the device reports a release, on any page and before or after a render
PracticeRelease ==
    \E k \in Keys :
        /\ PracticeCommit(onNoteOff(k, practice))
        /\ UNCHANGED notPracticeVars

NextPractice ==
    \/ PracticeRender
    \/ PracticeStart \/ PracticeRetry \/ PracticeNewSetup \/ PracticeFinish
    \/ PracticePress \/ PracticeRelease

SpecPractice == InitPractice /\ [][NextPractice]_vars

\* C35: the count of completed notes the App shows equals the cursor of the
\* session after every sequence of device events, renders and score
\* regenerations: a release that advances the cursor adds one to the count,
\* no other device event changes it, and the reset effect sets both to 0.
C35_CountEqualsCursor ==
    /\ ~practice.scoreDue =>
           practice.completedNotes = practice.session.cursor
    /\ practice.completedNotes # practice.was.completedNotes =>
           \/ /\ practice.last[1] = "release"
              /\ practice.last[2] \in {"advanced", "complete"}
              /\ practice.completedNotes = practice.was.completedNotes + 1
           \/ /\ practice.last[1] = "render"
              /\ practice.completedNotes = 0
              /\ practice.session.cursor = 0
    /\ (/\ practice.last[1] = "release"
        /\ practice.last[2] \in {"advanced", "complete"}) =>
           practice.completedNotes = practice.was.completedNotes + 1

\* the release of the last note of a second session of two notes has
\* returned complete
C35_Witness ==
    /\ practice.last = <<"release", "complete">>
    /\ practice.starts = 2
    /\ practice.completedNotes = 2
    /\ practice.session.cursor = 2

\* C36: the correct attempts never exceed the attempts, both counters grow
\* only on a press whose outcome is correct or wrong (attempts on both,
\* correct attempts on correct), a press whose outcome is complete or that
\* is ignored changes neither, and the accuracy stays within 0..100.
C36_AccuracyInRange ==
    /\ practice.correctAttempts <= practice.attempts
    /\ accuracy(practice) \in 0..100
    /\ practice.last[1] = "press" =>
           /\ practice.attempts =
                  practice.was.attempts
                  + (IF practice.last[2] \in {"correct", "wrong"}
                     THEN 1 ELSE 0)
           /\ practice.correctAttempts =
                  practice.was.correctAttempts
                  + (IF practice.last[2] = "correct" THEN 1 ELSE 0)
    /\ practice.last[1] \notin {"press", "render"} =>
           /\ practice.attempts = practice.was.attempts
           /\ practice.correctAttempts = practice.was.correctAttempts
    /\ practice.last[1] = "render" =>
           \/ /\ practice.attempts = practice.was.attempts
              /\ practice.correctAttempts = practice.was.correctAttempts
           \/ practice.attempts = 0 /\ practice.correctAttempts = 0

\* a press after the last note has been released returns complete and is not
\* counted, after one correct and one wrong press
C36_Witness ==
    /\ practice.last = <<"press", "complete">>
    /\ practice.attempts = 2
    /\ practice.correctAttempts = 1

\* C37: every session run is created by the completion of an epoch or by
\* the finish button, and no completion creates more than one: the session
\* runs created never exceed the completions and the uses of the button.
C37_FinishedOncePerEpoch ==
    practice.created <= practice.completions + practice.manual

(* ---------------------------- seeded trainings ------------------------- *)

notTrainingsVars ==
    <<hookVars, genVars, pitchVars, staleVars, conv, midi, settings, storage,
      staff, rngDraw, practice>>

\* seedTrainings after the seeded key was found missing: one transaction
\* puts every training of the seed and sets the seeded key
seedTrainingsWrite(db) ==
    [db EXCEPT !.store = @ \cup SeedTrainings,
               !.seeded = TRUE,
               !.writes = @ + 1,
               !.late = IF db.seeded THEN @ + 1 ELSE @]

\* seedTrainings from its first await on, in a transaction of its own: the
\* seeded key is read and, if it is set, the call writes nothing
seedTrainingsRead(db, c) ==
    [db EXCEPT !.calls[c] = IF db.seeded THEN "done" ELSE "writing"]

\* seedTrainings is called: the read of the seeded key is requested
SeedCall ==
    \E c \in 1..MaxSeedCalls :
        /\ trainings.calls[c] = "idle"
        /\ trainings' = [trainings EXCEPT !.calls[c] = "reading"]
        /\ UNCHANGED notTrainingsVars

\* the read-only transaction of a call completes
SeedRead ==
    \E c \in 1..MaxSeedCalls :
        /\ trainings.calls[c] = "reading"
        /\ trainings' = seedTrainingsRead(trainings, c)
        /\ UNCHANGED notTrainingsVars

\* the read-write transaction of a call that found no seeded key completes:
\* every training of the seed is put and the seeded key is set
SeedWrite ==
    \E c \in 1..MaxSeedCalls :
        /\ trainings.calls[c] = "writing"
        /\ trainings' =
               [seedTrainingsWrite(trainings) EXCEPT !.calls[c] = "done"]
        /\ UNCHANGED notTrainingsVars

\* deleteCustomTraining(id) of a training in the store
DeleteCustomTraining ==
    \E id \in trainings.store :
        /\ trainings' = [trainings EXCEPT !.store = @ \ {id},
                                          !.deleted = @ \cup {id}]
        /\ UNCHANGED notTrainingsVars

NextTrainings == SeedCall \/ SeedRead \/ SeedWrite \/ DeleteCustomTraining

SpecTrainings == Init /\ [][NextTrainings]_vars

\* C39: the seed is written at most once: no transaction of seedTrainings
\* writes the trainings after the seeded key has been set, whenever its call
\* started, so a seeded training the user has deleted stays deleted.
C39_SeededOnce ==
    /\ trainings.late = 0
    /\ trainings.writes <= 1
    /\ trainings.deleted \cap trainings.store = {}

====
